---- MODULE Spec2Model ----
(***************************************************************************)
(* MV Studio: the pipeline orchestrator (MVPipeline) driven by the HTTP    *)
(* request handlers of the server.                                         *)
(*                                                                         *)
(* One action is one synchronous block of JavaScript: everything a handler *)
(* or a promise continuation executes between two real suspensions         *)
(* (network call, timer, child process).  Operations that are suspended    *)
(* are kept in bags (asrJobs, runs, regens, videoJobs) together with the   *)
(* locals they captured.                                                   *)
(*                                                                         *)
(* progress is kept in hundredths (2500 is 25) because the per-item        *)
(* callbacks compute 25 + percentage * 0.35 and 60 + percentage * 0.25.    *)
(***************************************************************************)
EXTENDS Integers, Sequences, FiniteSets, Bags, TLC

VARIABLES status, progress, error, data, saved,
          lrcContent, asrJobs, runs, regens, videoJobs, reply, requests,
          call

vars == <<status, progress, error, data, saved,
          lrcContent, asrJobs, runs, regens, videoJobs, reply, requests,
          call>>

\* ------------------------------------------------------------------ bounds
\* most classified segments of one project
MaxSegments == 2
\* most operations suspended at the same time
MaxInFlight == 2
\* most requests (handler or direct operation calls) of one behaviour
MaxRequests == 5

\* ------------------------------------------------------- program constants
CREATED == "created"
RECOGNIZING_LYRICS == "recognizing_lyrics"
LYRICS_READY == "lyrics_ready"
GENERATING_STORYBOARD == "generating_storyboard"
GENERATING_IMAGES == "generating_images"
AWAITING_IMAGE_CONFIRM == "awaiting_image_confirm"
GENERATING_VIDEOS == "generating_videos"
ANIMATING_IMAGES == "animating_images"
COMPOSING_MV == "composing_mv"
COMPLETED == "completed"
FAILED == "failed"

ProjectStatus ==
    {CREATED, RECOGNIZING_LYRICS, LYRICS_READY, GENERATING_STORYBOARD,
     GENERATING_IMAGES, AWAITING_IMAGE_CONFIRM, GENERATING_VIDEOS,
     ANIMATING_IMAGES, COMPOSING_MV, COMPLETED, FAILED}

\* options.concurrency || 3 of the video collaborator
DefaultVideoConcurrency == 3

\* ----------------------------------------------------------------- helpers
\* an optional value: <<>> is undefined/null, <<x>> is x
Undefined == <<>>
Some(x) == <<x>>
IsDefined(o) == o # <<>>
Get(o) == o[1]

\* n percent (or n progress points) in hundredths
Pts(n) == n * 100

Range(s) == {s[i] : i \in DOMAIN s}

\* Array.prototype.includes
Includes(s, x) == \E i \in DOMAIN s : s[i] = x

\* Array.prototype.indexOf, 1-based; 0 stands for -1
IndexOf(s, x) ==
    IF Includes(s, x) THEN CHOOSE i \in DOMAIN s : s[i] = x /\ \A j \in 1..(i - 1) : s[j] # x
    ELSE 0

\* Array.prototype.splice(i, 1), 1-based
Splice(s, i) == [j \in 1..(Len(s) - 1) |-> IF j < i THEN s[j] ELSE s[j + 1]]

\* the splice guarded by indexOf(x) !== -1
RemoveFirst(s, x) == IF IndexOf(s, x) # 0 THEN Splice(s, IndexOf(s, x)) ELSE s

\* variant of PushIfAbsent without the includes guard
Push(s, x) == Append(s, x)

\* push guarded by !includes(x)
PushIfAbsent(s, x) == IF Includes(s, x) THEN s ELSE Append(s, x)

\* Math.round(n / d) for n >= 0, d > 0
Round(n, d) == (2 * n + d) \div (2 * d)

\* the lists classifySegments can produce, each segment reduced to its index:
\* segment i carries index i
SegmentLists == {[i \in 1..n |-> i] : n \in 0..MaxSegments}

EmptyConfirmation == [confirmed |-> <<>>, pending |-> <<>>, regenerating |-> <<>>]

\* an Error object with this message
ErrorObject(message) == [message |-> Some(message)]

\* JSON.parse(JSON.stringify(this.error)): null stays null; the message and
\* the stack of an Error are not enumerable, so an Error is written as {}
Stringified(er) == IF IsDefined(er) THEN Some([message |-> Undefined]) ELSE er

\* what JSON.stringify writes to project.json
Snapshot(st, pr, d, er) ==
    Some([status |-> st, progress |-> pr, data |-> d, error |-> Stringified(er)])

InFlight ==
    asrJobs + BagCardinality(runs) + BagCardinality(regens) + BagCardinality(videoJobs)

CanSuspend == InFlight < MaxInFlight

\* the outcome of the latest request or operation.  result: served; refused
\* before any work because a gate is closed ("gate"), a segment or project is
\* missing ("not found") or the request is malformed ("bad request"); or
\* failed (an exception, a 500 answer, a result with success: false)
Served == "ok"
GateError == "gate"
NotFound == "not found"
BadRequest == "bad request"
Failed == "error"
Reply(op, result) == [op |-> op, result |-> result]

\* a request is served: one more of the MaxRequests of the behaviour
Requested == requests < MaxRequests /\ requests' = requests + 1

\* one copy of e leaves the bag b
Take(b, e) == b (-) SetToBag({e})
\* one copy of e enters the bag b
Put(b, e) == b (+) SetToBag({e})

\* call holds one call of a function of the classifier, its arguments and,
\* once it has returned, its result; the pipeline actions leave it alone
NoCall == [fn |-> "none"]

\* ------------------------------------------------------------- constructor
Constructed ==
    /\ status = CREATED
    /\ progress = 0
    /\ error = Undefined
    /\ data = [classifiedSegments |-> Undefined,
               imageResults |-> Undefined,
               imageConfirmation |-> EmptyConfirmation,
               videoResults |-> Undefined,
               outputPath |-> Undefined,
               \* the indexes of the segments whose prompt is not a string
               badPrompts |-> {}]
    /\ saved = Undefined
    /\ lrcContent = FALSE
    /\ asrJobs = 0
    /\ runs = EmptyBag
    /\ regens = EmptyBag
    /\ videoJobs = EmptyBag
    /\ reply = Reply("upload", Served)
    /\ requests = 0

Init ==
    /\ Constructed
    /\ call = NoCall

\* ------------------------------------------------------------- predicates
\* variant of isAllImagesConfirmed that forgets the regenerating list
isAllImagesConfirmedPendingOnly == Len(data.imageConfirmation.pending) = 0

isAllImagesConfirmed ==
    /\ Len(data.imageConfirmation.pending) = 0
    /\ Len(data.imageConfirmation.regenerating) = 0

\* data.videoConfirmation || { confirmed: [], pending: [], regenerating: [] }:
\* no method of MVPipeline writes data.videoConfirmation
videoConfirmation == EmptyConfirmation

\* every suspended regenerateImage call now holds a confirmation object that
\* this.data no longer refers to
Orphaned(b) ==
    LET idx == {r.index : r \in BagToSet(b)}
    IN  [r \in {[index |-> i, stale |-> TRUE] : i \in idx} |->
            CopiesIn(r, b) + CopiesIn([index |-> r.index, stale |-> FALSE], b)]

\* variant of SuccessIndexes without the success filter
EveryIndex(results) == [i \in DOMAIN results |-> results[i].index]

\* results.filter(r => r.success).map(r => r.index)
SuccessIndexes(results) ==
    LET ok == SelectSeq(results, LAMBDA r : r.success)
    IN  [i \in DOMAIN ok |-> ok[i].index]

\* the result list of a stage over the segment indexes segs, ok the indexes
\* whose generation succeeded
Results(segs, ok) == [i \in DOMAIN segs |-> [index |-> segs[i], success |-> segs[i] \in ok]]

\* classifiedSegments.map(s => s.index)
AllIndexes(segments) == [i \in DOMAIN segments |-> segments[i]]

\* -------------------------------------------------------------- reloading
\* loadProjectData(): the fields of project.json replace those in memory; a
\* suspended regenerateImage keeps the confirmation object it read before
loadProjectData ==
    /\ Requested
    /\ UNCHANGED call
    /\ IF IsDefined(saved)
       THEN /\ status' = Get(saved).status
            /\ progress' = Get(saved).progress
            /\ data' = Get(saved).data
            /\ error' = Get(saved).error
            /\ regens' = Orphaned(regens)
            /\ reply' = Reply("loadProjectData", Served)
       ELSE /\ reply' = Reply("loadProjectData", NotFound)
            /\ UNCHANGED <<status, progress, data, error, regens>>
    /\ UNCHANGED <<saved, lrcContent, asrJobs, runs, videoJobs>>

\* ---------------------------------------------------------- lyric handlers
\* POST /api/recognize
Recognize ==
    /\ Requested
    /\ UNCHANGED call
    /\ CanSuspend
    /\ status' = RECOGNIZING_LYRICS
    /\ progress' = Pts(15)
    /\ saved' = Snapshot(RECOGNIZING_LYRICS, Pts(15), data, error)
    /\ asrJobs' = asrJobs + 1
    /\ reply' = Reply("recognize", Served)
    /\ UNCHANGED <<error, data, lrcContent, runs, regens, videoJobs>>

\* the recognition started by /api/recognize returns or raises
AsrDone ==
    /\ asrJobs > 0
    /\ asrJobs' = asrJobs - 1
    /\ \/ /\ lrcContent' = TRUE
          /\ status' = LYRICS_READY
          /\ progress' = Pts(25)
          /\ saved' = Snapshot(LYRICS_READY, Pts(25), data, error)
          /\ reply' = Reply("recognize", Served)
       \/ /\ reply' = Reply("recognize", Failed)
          /\ UNCHANGED <<lrcContent, status, progress, saved>>
    /\ UNCHANGED <<error, data, runs, regens, videoJobs>>
    /\ UNCHANGED <<requests, call>>

\* POST /api/import-lyrics
ImportLyrics ==
    /\ Requested
    /\ UNCHANGED call
    /\ \/ /\ lrcContent' = TRUE
          /\ status' = LYRICS_READY
          /\ progress' = Pts(25)
          /\ saved' = Snapshot(LYRICS_READY, Pts(25), data, error)
          /\ reply' = Reply("import-lyrics", Served)
       \/ /\ reply' = Reply("import-lyrics", BadRequest)
          /\ UNCHANGED <<lrcContent, status, progress, saved>>
    /\ UNCHANGED <<error, data, asrJobs, runs, regens, videoJobs>>

\* POST /api/update-lyrics with an lrcContent
UpdateLyrics ==
    /\ Requested
    /\ UNCHANGED call
    /\ lrcContent' = TRUE
    /\ reply' = Reply("update-lyrics", Served)
    /\ UNCHANGED <<status, progress, error, data, saved, asrJobs, runs, regens, videoJobs>>

\* ------------------------------------------------ runUntilImageConfirmation
\* POST /api/start-mv: runUntilImageConfirmation up to its first suspension,
\* parseLyrics (status, progress 5, then 10) and the start of
\* generateStoryboard (status, progress 10)
StartMV ==
    /\ Requested
    /\ UNCHANGED call
    /\ \/ /\ ~lrcContent
          /\ reply' = Reply("start-mv", BadRequest)
          /\ UNCHANGED <<status, progress, error, data, saved, lrcContent,
                         asrJobs, runs, regens, videoJobs>>
       \/ /\ lrcContent
          /\ CanSuspend
          /\ status' = GENERATING_STORYBOARD
          /\ progress' = Pts(10)
          /\ saved' = Snapshot(GENERATING_STORYBOARD, Pts(10), data, error)
          /\ runs' = Put(runs, [pc |-> "storyboard", total |-> 0, done |-> 0, ok |-> {}])
          /\ reply' = Reply("start-mv", Served)
          /\ UNCHANGED <<error, data, lrcContent, asrJobs, regens, videoJobs>>

\* variant of reportError that records the error and leaves the status
reportErrorKeepingStatus(message, pr, d) ==
    /\ error' = Some(ErrorObject(message))
    /\ status' = status
    /\ saved' = Snapshot(status, pr, d, error')

\* reportError
reportError(message, pr, d) ==
    /\ error' = Some(ErrorObject(message))
    /\ status' = FAILED
    /\ saved' = Snapshot(FAILED, pr, d, error')

\* the end of generateImages: imageResults, the seeded confirmation lists,
\* progress 60 and AWAITING_IMAGE_CONFIRM
generateImagesFinish(d, results) ==
    /\ data' = [d EXCEPT !.imageResults = Some(results),
                         !.imageConfirmation =
                             [confirmed |-> <<>>,
                              pending |-> SuccessIndexes(results),
                              regenerating |-> <<>>]]
    /\ progress' = Pts(60)
    /\ status' = AWAITING_IMAGE_CONFIRM
    /\ saved' = Snapshot(AWAITING_IMAGE_CONFIRM, Pts(60), data', error)
    /\ regens' = Orphaned(regens)
    /\ reply' = Reply("runUntilImageConfirmation", Served)

\* the storyboard collaborator raises: the catch of runUntilImageConfirmation
StoryboardFailed(r) ==
    /\ r.pc = "storyboard"
    /\ runs' = Take(runs, r)
    /\ reportError("storyboard", progress, data)
    /\ reply' = Reply("runUntilImageConfirmation", Failed)
    /\ UNCHANGED <<progress, data, lrcContent, asrJobs, regens, videoJobs>>
    /\ UNCHANGED <<requests, call>>

\* the storyboard collaborator returns: rest of generateStoryboard,
\* classifySegments, and generateImages up to the first image request
StoryboardDone(r, segments) ==
    /\ r.pc = "storyboard"
    /\ LET d == [data EXCEPT !.classifiedSegments = Some(segments), !.badPrompts = {}]
       IN  IF Len(segments) = 0
           THEN /\ runs' = Take(runs, r)
                /\ generateImagesFinish(d, <<>>)
           ELSE /\ runs' = Put(Take(runs, r),
                               [pc |-> "images", total |-> Len(segments), done |-> 0, ok |-> {}])
                /\ data' = d
                /\ status' = GENERATING_IMAGES
                /\ progress' = Pts(25)
                /\ saved' = Snapshot(GENERATING_IMAGES, Pts(25), d, error)
                /\ UNCHANGED <<regens, reply>>
    /\ UNCHANGED <<error, lrcContent, asrJobs, videoJobs>>
    /\ UNCHANGED <<requests, call>>

\* one image request of generateImagesWithCharacter ends, not the last one:
\* the result is kept and the progress callback runs
ImageGenerated(r, success) ==
    /\ r.pc = "images"
    /\ r.done + 1 < r.total
    /\ runs' = Put(Take(runs, r),
                   [r EXCEPT !.done = r.done + 1,
                             !.ok = IF success THEN r.ok \cup {r.done + 1} ELSE r.ok])
    /\ progress' = Pts(25) + 35 * Round((r.done + 1) * 100, r.total)
    /\ UNCHANGED <<status, error, data, saved, lrcContent, asrJobs, regens, videoJobs, reply>>
    /\ UNCHANGED <<requests, call>>

\* the last image request ends: generateImages completes
GenerateImagesComplete(r, success) ==
    /\ r.pc = "images"
    /\ r.done + 1 = r.total
    /\ runs' = Take(runs, r)
    /\ LET ok == IF success THEN r.ok \cup {r.total} ELSE r.ok
       IN  generateImagesFinish(data, Results([i \in 1..r.total |-> i], ok))
    /\ UNCHANGED <<error, lrcContent, asrJobs, videoJobs>>
    /\ UNCHANGED <<requests, call>>

\* --------------------------------------------------------- the image gate
\* the index values a request can carry: the segment indexes and one more
Indexes == 1..(MaxSegments + 1)

\* classifiedSegments.find(s => s.index === index) finds a segment
HasSegment(index) ==
    /\ IsDefined(data.classifiedSegments)
    /\ Includes(Get(data.classifiedSegments), index)

\* confirmImage(index), POST /api/confirm-image
confirmImage(index) ==
    /\ Requested
    /\ UNCHANGED call
    /\ LET confirmation == data.imageConfirmation
       IN  /\ data' = [data EXCEPT !.imageConfirmation =
                           [confirmation EXCEPT
                               !.pending = RemoveFirst(confirmation.pending, index),
                               !.confirmed = PushIfAbsent(confirmation.confirmed, index)]]
           /\ saved' = Snapshot(status, progress, data', error)
           \* the return value reads this.data.classifiedSegments.length
           /\ reply' = IF IsDefined(data.classifiedSegments)
                       THEN Reply("confirmImage", Served)
                       ELSE Reply("confirmImage", Failed)
           /\ UNCHANGED <<status, progress, error, lrcContent, asrJobs, runs, regens, videoJobs>>

\* variant of confirmAllImages that leaves the pending list as it is
confirmAllImagesKeepingPending ==
    /\ Requested
    /\ UNCHANGED call
    /\ IF IsDefined(data.classifiedSegments)
       THEN /\ data' = [data EXCEPT !.imageConfirmation.confirmed =
                                        AllIndexes(Get(data.classifiedSegments))]
            /\ saved' = Snapshot(status, progress, data', error)
            /\ reply' = Reply("confirmAllImages", Served)
            /\ UNCHANGED <<status, progress, error, lrcContent, asrJobs, runs, regens, videoJobs>>
       ELSE /\ reply' = Reply("confirmAllImages", Failed)
            /\ UNCHANGED <<status, progress, error, data, saved, lrcContent,
                           asrJobs, runs, regens, videoJobs>>

\* confirmAllImages(), POST /api/confirm-all
confirmAllImages ==
    /\ Requested
    /\ UNCHANGED call
    /\ IF IsDefined(data.classifiedSegments)
       THEN /\ data' = [data EXCEPT !.imageConfirmation =
                           [data.imageConfirmation EXCEPT
                               !.confirmed = AllIndexes(Get(data.classifiedSegments)),
                               !.pending = <<>>]]
            /\ saved' = Snapshot(status, progress, data', error)
            /\ reply' = Reply("confirmAllImages", Served)
            /\ UNCHANGED <<status, progress, error, lrcContent, asrJobs, runs, regens, videoJobs>>
       ELSE /\ reply' = Reply("confirmAllImages", Failed)
            /\ UNCHANGED <<status, progress, error, data, saved, lrcContent,
                           asrJobs, runs, regens, videoJobs>>

\* the newPrompt of a request: absent, a string, or a value that is neither
NewPrompts == {"absent", "string", "other"}

\* segment.prompt = newPrompt, kept as the set of the indexes whose prompt is
\* not a string
Prompted(bad, index, newPrompt) ==
    IF newPrompt = "string" THEN bad \ {index} ELSE bad \cup {index}

\* regenerateImage(index, newPrompt) up to the image request,
\* POST /api/regenerate-image
regenerateImage(index, newPrompt) ==
    /\ Requested
    /\ UNCHANGED call
    /\ IF HasSegment(index)
       THEN LET bad == IF newPrompt = "absent" THEN data.badPrompts
                       ELSE Prompted(data.badPrompts, index, newPrompt)
                pushed == [data EXCEPT !.badPrompts = bad,
                                       !.imageConfirmation.regenerating = Append(@, index)]
            IN  IF index \in bad
                \* segment.prompt.substring raises after the push, outside the try
                THEN /\ data' = pushed
                     /\ saved' = Snapshot(status, progress, data', error)
                     /\ reply' = Reply("regenerateImage", Failed)
                     /\ UNCHANGED <<status, progress, error, lrcContent, asrJobs, runs,
                                    regens, videoJobs>>
                ELSE /\ CanSuspend
                     /\ data' = pushed
                     /\ saved' = Snapshot(status, progress, data', error)
                     /\ regens' = Put(regens, [index |-> index, stale |-> FALSE])
                     /\ reply' = Reply("regenerateImage", Served)
                     /\ UNCHANGED <<status, progress, error, lrcContent, asrJobs, runs,
                                    videoJobs>>
       ELSE /\ reply' = Reply("regenerateImage", NotFound)
            /\ UNCHANGED <<status, progress, error, data, saved, lrcContent,
                           asrJobs, runs, regens, videoJobs>>

\* updatePrompt(index, newPrompt), POST /api/update-prompt
updatePrompt(index, newPrompt) ==
    /\ Requested
    /\ UNCHANGED call
    /\ IF IsDefined(data.classifiedSegments)
       THEN /\ data' = [data EXCEPT !.badPrompts =
                           IF HasSegment(index) THEN Prompted(@, index, newPrompt) ELSE @]
            /\ saved' = Snapshot(status, progress, data', error)
            /\ reply' = Reply("updatePrompt", Served)
            /\ UNCHANGED <<status, progress, error, lrcContent, asrJobs, runs, regens, videoJobs>>
       ELSE /\ reply' = Reply("updatePrompt", Failed)
            /\ UNCHANGED <<status, progress, error, data, saved, lrcContent,
                           asrJobs, runs, regens, videoJobs>>

\* variant of Regenerated that leaves the index in confirmed
RegeneratedStillConfirmed(confirmation, index) ==
    [regenerating |-> RemoveFirst(confirmation.regenerating, index),
     pending |-> PushIfAbsent(confirmation.pending, index),
     confirmed |-> confirmation.confirmed]

\* the list updates of regenerateImage after the image request has returned
Regenerated(confirmation, index) ==
    [regenerating |-> RemoveFirst(confirmation.regenerating, index),
     pending |-> PushIfAbsent(confirmation.pending, index),
     confirmed |-> RemoveFirst(confirmation.confirmed, index)]

\* this.data.imageResults[resultIdx] = { ...result, index }
StoreImageResult(results, index, success) ==
    [i \in DOMAIN results |->
        IF i = IndexOf([j \in DOMAIN results |-> results[j].index], index)
        THEN [index |-> index, success |-> success] ELSE results[i]]

\* the image request of a suspended regenerateImage returns, with success or
\* with success = false (generateImage catches every error)
regenerateImageDone(c, success) ==
    /\ regens' = Take(regens, c)
    /\ LET confirmation ==
               \* a call whose confirmation object was replaced updates the old object
               IF c.stale THEN data.imageConfirmation
               ELSE Regenerated(data.imageConfirmation, c.index)
       IN  IF IsDefined(data.imageResults)
           THEN /\ data' = [data EXCEPT
                               !.imageConfirmation = confirmation,
                               !.imageResults =
                                   Some(StoreImageResult(Get(data.imageResults), c.index, success))]
                /\ reply' = Reply("regenerateImage", IF success THEN Served ELSE Failed)
           \* imageResults.findIndex raises; the catch removes the index once more
           ELSE /\ data' = [data EXCEPT
                               !.imageConfirmation =
                                   [confirmation EXCEPT
                                       !.regenerating = RemoveFirst(@, c.index)]]
                /\ reply' = Reply("regenerateImage", Failed)
    /\ saved' = Snapshot(status, progress, data', error)
    /\ UNCHANGED <<status, progress, error, lrcContent, asrJobs, runs, videoJobs>>
    /\ UNCHANGED <<requests, call>>

\* ------------------------------------------------------ the video stage
\* the values options.concurrency takes: one at a time, or the default
Concurrencies == {1, DefaultVideoConcurrency}

\* the segments of a list whose index is in keep, in list order
Only(segments, keep) == SelectSeq(segments, LAMBDA i : i \in keep)

\* generateVideos past its gate.  andCompose: the call comes from
\* continueAfterImageConfirmation, which runs composeMV next and turns every
\* exception into reportError.  tier: the indexes whose renderType is VIDEO
\* (the segments are reduced to their index, so the tier is an input).
generateVideosStart(op, andCompose, allVideo, tier, conc) ==
    IF ~IsDefined(data.classifiedSegments)
    THEN \* videoSegments.length / classifiedSegments.filter raises
         /\ progress' = Pts(60)
         /\ IF andCompose
            THEN /\ reportError("TypeError", Pts(60), data)
            ELSE /\ status' = GENERATING_VIDEOS
                 /\ saved' = Snapshot(GENERATING_VIDEOS, Pts(60), data, error)
                 /\ UNCHANGED error
         /\ reply' = Reply(op, Failed)
         /\ UNCHANGED <<data, lrcContent, asrJobs, runs, regens, videoJobs>>
    ELSE LET videoSegments ==
                 IF allVideo THEN Get(data.classifiedSegments)
                 ELSE Only(Get(data.classifiedSegments), tier)
         IN  IF Len(videoSegments) = 0
             THEN /\ data' = [data EXCEPT !.videoResults = Some(<<>>)]
                  /\ IF andCompose
                     THEN \* composeMV: the composer finds no clip and raises
                          /\ progress' = Pts(90)
                          /\ reportError("No video segments found", Pts(90), data')
                          /\ reply' = Reply(op, Failed)
                     ELSE /\ progress' = Pts(60)
                          /\ status' = GENERATING_VIDEOS
                          /\ saved' = Snapshot(GENERATING_VIDEOS, Pts(60), data, error)
                          /\ reply' = Reply(op, Served)
                          /\ UNCHANGED error
                  /\ UNCHANGED <<lrcContent, asrJobs, runs, regens, videoJobs>>
             ELSE /\ CanSuspend
                  /\ status' = GENERATING_VIDEOS
                  /\ progress' = Pts(60)
                  /\ saved' = Snapshot(GENERATING_VIDEOS, Pts(60), data, error)
                  /\ videoJobs' = Put(videoJobs,
                                      [pc |-> "videos", op |-> op, andCompose |-> andCompose,
                                       segs |-> videoSegments, done |-> 0, ok |-> {},
                                       conc |-> conc])
                  /\ reply' = Reply(op, Served)
                  /\ UNCHANGED <<error, data, lrcContent, asrJobs, runs, regens>>

\* the refusal of a stage whose gate is closed: an exception or a 400 answer
GateRefused(op) ==
    /\ reply' = Reply(op, GateError)
    /\ UNCHANGED <<status, progress, error, data, saved, lrcContent,
                   asrJobs, runs, regens, videoJobs>>

\* generateVideos(options), called directly
generateVideos(allVideo, tier, conc) ==
    /\ Requested
    /\ UNCHANGED call
    /\ IF ~isAllImagesConfirmed THEN GateRefused("generateVideos")
       ELSE generateVideosStart("generateVideos", FALSE, allVideo, tier, conc)

\* continueAfterImageConfirmation(audioPath, options), called directly
continueAfterImageConfirmation(conc) ==
    /\ Requested
    /\ UNCHANGED call
    /\ IF ~isAllImagesConfirmed THEN GateRefused("continueAfterImageConfirmation")
       ELSE generateVideosStart("continueAfterImageConfirmation", TRUE, TRUE, {}, conc)

\* POST /api/continue-mv
ContinueMV(conc) ==
    /\ Requested
    /\ UNCHANGED call
    /\ IF ~isAllImagesConfirmed THEN GateRefused("continue-mv")
       ELSE generateVideosStart("continue-mv", TRUE, TRUE, {}, conc)

\* the indexes of the batch of job j that is being generated
Batch(j) == {j.segs[i] : i \in (j.done + 1)..(j.done + j.conc) \cap DOMAIN j.segs}

\* a batch of the video collaborator ends, not the last one: the progress
\* callback runs
VideoBatchDone(j, ok) ==
    /\ j.pc = "videos"
    /\ j.done + j.conc < Len(j.segs)
    /\ videoJobs' = Put(Take(videoJobs, j),
                        [j EXCEPT !.done = j.done + j.conc, !.ok = j.ok \cup ok])
    /\ progress' = Pts(60) + 25 * Round((j.done + j.conc) * 100, Len(j.segs))
    /\ UNCHANGED <<status, error, data, saved, lrcContent, asrJobs, runs, regens, reply>>
    /\ UNCHANGED <<requests, call>>

\* the last batch ends: the rest of generateVideos and, for
\* continueAfterImageConfirmation, composeMV up to the composer's first
\* suspension
generateVideosComplete(j, ok) ==
    /\ j.pc = "videos"
    /\ j.done + j.conc >= Len(j.segs)
    /\ data' = [data EXCEPT !.videoResults = Some(Results(j.segs, j.ok \cup ok))]
    /\ IF ~j.andCompose
       THEN /\ videoJobs' = Take(videoJobs, j)
            /\ progress' = Pts(85)
            /\ saved' = Snapshot(status, Pts(85), data', error)
            /\ reply' = Reply(j.op, Served)
            /\ UNCHANGED <<status, error>>
       ELSE IF Len(Get(data.classifiedSegments)) = 0
            THEN /\ videoJobs' = Take(videoJobs, j)
                 /\ progress' = Pts(90)
                 /\ reportError("No video segments found", Pts(90), data')
                 /\ reply' = Reply(j.op, Failed)
            ELSE /\ videoJobs' = Put(Take(videoJobs, j), [j EXCEPT !.pc = "compose"])
                 /\ progress' = Pts(90)
                 /\ status' = COMPOSING_MV
                 /\ saved' = Snapshot(COMPOSING_MV, Pts(90), data', error)
                 /\ UNCHANGED <<error, reply>>
    /\ UNCHANGED <<lrcContent, asrJobs, runs, regens>>
    /\ UNCHANGED <<requests, call>>

\* the composer finds a clip for some segment: the video stage has left
\* files for the segments of the project
HasClips ==
    /\ IsDefined(data.classifiedSegments)
    /\ Len(Get(data.classifiedSegments)) > 0
    /\ IsDefined(data.videoResults)
    /\ Len(Get(data.videoResults)) > 0

\* composeMV(audioPath, options), called directly, up to the composer's first
\* suspension; without a clip the composer raises before it suspends
composeMV ==
    /\ Requested
    /\ UNCHANGED call
    /\ status' = COMPOSING_MV
    /\ progress' = Pts(90)
    /\ saved' = Snapshot(COMPOSING_MV, Pts(90), data, error)
    /\ IF HasClips
       THEN /\ CanSuspend
            /\ videoJobs' = Put(videoJobs,
                                [pc |-> "compose", op |-> "composeMV", andCompose |-> FALSE,
                                 segs |-> <<>>, done |-> 0, ok |-> {}, conc |-> 1])
            /\ reply' = Reply("composeMV", Served)
       ELSE /\ reply' = Reply("composeMV", Failed)
            /\ UNCHANGED videoJobs
    /\ UNCHANGED <<error, data, lrcContent, asrJobs, runs, regens>>

\* the composer returns: the end of composeMV
composeMVDone(j) ==
    /\ j.pc = "compose"
    /\ videoJobs' = Take(videoJobs, j)
    /\ data' = [data EXCEPT !.outputPath = Some("mv_final.mp4")]
    /\ progress' = Pts(100)
    /\ status' = COMPLETED
    /\ saved' = Snapshot(COMPLETED, Pts(100), data', error)
    /\ reply' = Reply(j.op, Served)
    /\ UNCHANGED <<error, lrcContent, asrJobs, runs, regens>>
    /\ UNCHANGED <<requests, call>>

\* the composer raises: composeMV rejects; the catch of
\* continueAfterImageConfirmation reports the error, a direct caller is left
\* with the rejection
composeMVFailed(j) ==
    /\ j.pc = "compose"
    /\ videoJobs' = Take(videoJobs, j)
    /\ IF j.andCompose
       THEN reportError("compose", progress, data)
       ELSE UNCHANGED <<status, error, saved>>
    /\ reply' = Reply(j.op, Failed)
    /\ UNCHANGED <<progress, data, lrcContent, asrJobs, runs, regens>>
    /\ UNCHANGED <<requests, call>>

\* the handlers of the video gate (/api/get-videos, confirm-video,
\* confirm-all-videos, regenerate-video, update-video-prompt,
\* continue-after-videos) call methods MVPipeline does not have: the call
\* raises a TypeError and the handler answers 500
VideoGateRequest ==
    /\ Requested
    /\ UNCHANGED call
    /\ reply' = Reply("video-gate", Failed)
    /\ UNCHANGED <<status, progress, error, data, saved, lrcContent,
                   asrJobs, runs, regens, videoJobs>>

Next ==
    \/ Recognize
    \/ AsrDone
    \/ ImportLyrics
    \/ UpdateLyrics
    \/ StartMV
    \/ \E r \in BagToSet(runs) : StoryboardFailed(r)
    \/ \E r \in BagToSet(runs), segments \in SegmentLists : StoryboardDone(r, segments)
    \/ \E r \in BagToSet(runs), success \in BOOLEAN : ImageGenerated(r, success)
    \/ \E r \in BagToSet(runs), success \in BOOLEAN : GenerateImagesComplete(r, success)
    \/ \E index \in Indexes : confirmImage(index)
    \/ confirmAllImages
    \/ \E index \in Indexes, newPrompt \in NewPrompts : regenerateImage(index, newPrompt)
    \/ \E index \in Indexes, newPrompt \in NewPrompts : updatePrompt(index, newPrompt)
    \/ \E c \in BagToSet(regens), success \in BOOLEAN : regenerateImageDone(c, success)
    \/ \E allVideo \in BOOLEAN, tier \in SUBSET (1..MaxSegments), conc \in Concurrencies :
           generateVideos(allVideo, tier, conc)
    \/ \E conc \in Concurrencies : continueAfterImageConfirmation(conc)
    \/ \E conc \in Concurrencies : ContinueMV(conc)
    \/ \E j \in BagToSet(videoJobs) : \E ok \in SUBSET Batch(j) : VideoBatchDone(j, ok)
    \/ \E j \in BagToSet(videoJobs) : \E ok \in SUBSET Batch(j) : generateVideosComplete(j, ok)
    \/ composeMV
    \/ loadProjectData
    \/ \E j \in BagToSet(videoJobs) : composeMVDone(j)
    \/ \E j \in BagToSet(videoJobs) : composeMVFailed(j)
    \/ VideoGateRequest

Spec == Init /\ [][Next]_vars

\* a collaborator call awaited by runUntilImageConfirmation (the storyboard
\* request, an image request) returns or raises
RunReturns ==
    \E r \in BagToSet(runs) :
        \/ StoryboardFailed(r)
        \/ \E segments \in SegmentLists : StoryboardDone(r, segments)
        \/ \E success \in BOOLEAN : ImageGenerated(r, success)
        \/ \E success \in BOOLEAN : GenerateImagesComplete(r, success)

\* a collaborator call awaited by generateVideos or composeMV (a batch of
\* video requests, the composer) returns or raises
VideoReturns ==
    \E j \in BagToSet(videoJobs) :
        \/ \E ok \in SUBSET Batch(j) : VideoBatchDone(j, ok)
        \/ \E ok \in SUBSET Batch(j) : generateVideosComplete(j, ok)
        \/ composeMVDone(j)
        \/ composeMVFailed(j)

\* the pipeline and its server when every awaited collaborator call
\* eventually returns or raises
SpecLive == Spec /\ WF_vars(RunReturns) /\ WF_vars(VideoReturns)

\* ------------------------------------------------------ segment classifier
\* longest list of classified segments given to a function of the classifier
MaxClassified == 3
\* largest budget.maxVideos
MaxBudget == 3

VIDEO == "video"
ANIMATION == "animation"
STATIC == "static"

HIGH == "high"
MEDIUM == "medium"
LOW == "low"

\* the lyric durations, in seconds
Durations == {3, 5, 7}

\* variant of calculateVideoDuration without the upper limit
calculateVideoDurationUnbounded(lyricDuration) ==
    IF lyricDuration > 3 THEN lyricDuration ELSE 3

\* calculateVideoDuration(lyricDuration): Math.min(Math.max(lyricDuration, 3), 10)
calculateVideoDuration(lyricDuration) ==
    LET atLeast == IF lyricDuration > 3 THEN lyricDuration ELSE 3
    IN  IF atLeast < 10 THEN atLeast ELSE 10

\* an element of the list classifySegments returns, reduced to the fields
\* the classifier reads afterwards; videoDuration is null unless VIDEO
ClassifiedSegment(renderType, priority, duration) ==
    [renderType |-> renderType,
     priority |-> priority,
     duration |-> duration,
     videoDuration |-> IF renderType = VIDEO
                       THEN Some(calculateVideoDuration(duration)) ELSE Undefined]

ClassifiedSegments ==
    {ClassifiedSegment(VIDEO, p, d) : p \in {HIGH, MEDIUM, LOW}, d \in Durations}
        \cup {ClassifiedSegment(ANIMATION, MEDIUM, 5), ClassifiedSegment(STATIC, LOW, 3)}

ClassifiedLists == UNION {[1..n -> ClassifiedSegments] : n \in 0..MaxClassified}

\* priorityOrder[priority]
priorityOrder(priority) ==
    CASE priority = HIGH -> 0
      [] priority = MEDIUM -> 1
      [] priority = LOW -> 2

\* variant of compare that puts the shorter segment first
compareShorterFirst(a, b) ==
    IF a.renderType # VIDEO THEN 1
    ELSE IF b.renderType # VIDEO THEN -1
    ELSE IF priorityOrder(a.priority) - priorityOrder(b.priority) # 0
         THEN priorityOrder(a.priority) - priorityOrder(b.priority)
         ELSE a.duration - b.duration

\* the comparator optimizeForBudget sorts with
compare(a, b) ==
    IF a.renderType # VIDEO THEN 1
    ELSE IF b.renderType # VIDEO THEN -1
    ELSE IF priorityOrder(a.priority) - priorityOrder(b.priority) # 0
         THEN priorityOrder(a.priority) - priorityOrder(b.priority)
         ELSE b.duration - a.duration

\* one step of the insertion sort Array.prototype.sort runs on a short
\* array: position x of classified enters the sorted positions before the
\* first one it compares less than
SortInsert(sorted, x, classified) ==
    LET less == {i \in DOMAIN sorted : compare(classified[x], classified[sorted[i]]) < 0}
        at == IF less = {} THEN Len(sorted) + 1
              ELSE CHOOSE i \in less : \A j \in less : i <= j
    IN  SubSeq(sorted, 1, at - 1) \o <<x>> \o SubSeq(sorted, at, Len(sorted))

\* [...classified].sort(compare), as the positions 1..n of classified
RECURSIVE Sorted(_, _)
Sorted(classified, n) ==
    IF n = 0 THEN <<>> ELSE SortInsert(Sorted(classified, n - 1), n, classified)

\* variant of OverBudget that asks one video too late
OverBudgetLate(kept, maxVideos) == kept > maxVideos

\* kept >= maxVideos
OverBudget(kept, maxVideos) == kept >= maxVideos

\* the loop over sorted, from position k on with kept videos kept so far:
\* the positions of classified it downgrades
RECURSIVE Downgraded(_, _, _, _, _)
Downgraded(sorted, classified, maxVideos, k, kept) ==
    IF k > Len(sorted) THEN {}
    ELSE IF classified[sorted[k]].renderType = VIDEO
         THEN IF OverBudget(kept, maxVideos)
              THEN {sorted[k]} \cup Downgraded(sorted, classified, maxVideos, k + 1, kept)
              ELSE Downgraded(sorted, classified, maxVideos, k + 1, kept + 1)
         ELSE Downgraded(sorted, classified, maxVideos, k + 1, kept)

\* classified.filter(c => c.renderType === RenderType.VIDEO).length
VideoCount(classified) ==
    Cardinality({i \in DOMAIN classified : classified[i].renderType = VIDEO})

\* optimizeForBudget(classified, {maxVideos})
optimizeForBudget(classified, maxVideos) ==
    IF VideoCount(classified) > maxVideos
    THEN LET down == Downgraded(Sorted(classified, Len(classified)),
                                classified, maxVideos, 1, 0)
         IN  [i \in DOMAIN classified |->
                 IF i \in down
                 THEN [classified[i] EXCEPT !.renderType = ANIMATION,
                                            !.videoDuration = Undefined]
                 ELSE classified[i]]
    ELSE classified

\* the segments mergeAdjacentSegments reads, before they are placed in time:
\* render type, whether the segment is special (intro, interlude, outro),
\* and duration in seconds
MergeShapes == [renderType : {VIDEO, ANIMATION, STATIC}, specialType : BOOLEAN, duration : 1..2]

\* the startTime of segment i of lyrics that follow one another without gaps
RECURSIVE StartOf(_, _)
StartOf(shapes, i) == IF i = 1 THEN 0 ELSE StartOf(shapes, i - 1) + shapes[i - 1].duration

\* the classified list of such lyrics
Timeline(shapes) ==
    [i \in DOMAIN shapes |->
        [index |-> i,
         renderType |-> shapes[i].renderType,
         specialType |-> shapes[i].specialType,
         startTime |-> StartOf(shapes, i),
         endTime |-> StartOf(shapes, i) + shapes[i].duration,
         duration |-> shapes[i].duration]]

Timelines == {Timeline(shapes) : shapes \in UNION {[1..n -> MergeShapes] : n \in 0..MaxClassified}}

\* the values mergeThreshold takes: the default and one more
MergeThresholds == {2, 3}

\* variant of canMerge that lets VIDEO segments merge
canMergeAnyType(buffer, item, mergeThreshold) ==
    /\ buffer.renderType = item.renderType
    /\ buffer.duration < mergeThreshold
    /\ item.duration < mergeThreshold
    /\ ~buffer.specialType
    /\ ~item.specialType

\* canMerge of mergeAdjacentSegments
canMerge(buffer, item, mergeThreshold) ==
    /\ buffer.renderType = item.renderType
    /\ buffer.renderType # VIDEO
    /\ buffer.duration < mergeThreshold
    /\ item.duration < mergeThreshold
    /\ ~buffer.specialType
    /\ ~item.specialType

\* the loop of mergeAdjacentSegments from item k on, and the final push
RECURSIVE MergeLoop(_, _, _, _, _)
MergeLoop(classified, k, buffer, merged, mergeThreshold) ==
    IF k > Len(classified) THEN Append(merged, buffer)
    ELSE LET item == classified[k]
         IN  IF canMerge(buffer, item, mergeThreshold)
             THEN MergeLoop(classified, k + 1,
                            [buffer EXCEPT !.endTime = item.endTime,
                                           !.duration = item.endTime - buffer.startTime],
                            merged, mergeThreshold)
             ELSE MergeLoop(classified, k + 1, item, Append(merged, buffer), mergeThreshold)

\* mergeAdjacentSegments(classified, mergeThreshold)
mergeAdjacentSegments(classified, mergeThreshold) ==
    IF Len(classified) = 0 THEN <<>>
    ELSE LET merged == MergeLoop(classified, 2, classified[1], <<>>, mergeThreshold)
         IN  [i \in DOMAIN merged |-> [merged[i] EXCEPT !.index = i]]

\* a call of mergeAdjacentSegments that has not returned
MergeCall(classified, mergeThreshold) ==
    [fn |-> "mergeAdjacentSegments", classified |-> classified,
     mergeThreshold |-> mergeThreshold, result |-> Undefined]

\* the largest number of lyrics of a song given to analyzePriority
MaxTotal == 10

\* the lyrics analyzePriority and determineRenderType read: whether the
\* lyric is special, and its duration in seconds
Lyrics == [specialType : BOOLEAN, duration : 1..7]

\* analyzePriority(lyric, index, total); position = index / total is compared
\* with 0.5 and 0.8 as a ratio of integers
analyzePriority(lyric, index, total) ==
    IF lyric.specialType THEN LOW
    ELSE IF 10 * index >= 5 * total /\ 10 * index <= 8 * total THEN HIGH
    ELSE IF index <= 2 \/ index >= total - 2 THEN MEDIUM
    ELSE IF lyric.duration >= 6 THEN HIGH
    ELSE MEDIUM

\* a call of analyzePriority that has not returned; classifySegments passes
\* the position of the lyric in the list, counted from 0, and the length of
\* the list
PriorityCall(lyric, index, total) ==
    [fn |-> "analyzePriority", lyric |-> lyric, index |-> index,
     total |-> total, result |-> Undefined]

PriorityCalls ==
    {PriorityCall(l, i, t) : l \in Lyrics, i \in 0..(MaxTotal - 1), t \in 1..MaxTotal}

\* config.segmentation
minVideoThreshold == 4
minAnimationThreshold == 2

\* the options determineRenderType reads: allVideo, and forceType when given
RenderOptions ==
    [allVideo : BOOLEAN,
     forceType : {Undefined} \cup {Some(t) : t \in {VIDEO, ANIMATION, STATIC}}]

\* variant of determineRenderType that looks at forceType before allVideo
determineRenderTypeForcedFirst(lyric, priority, options) ==
    IF IsDefined(options.forceType) THEN Get(options.forceType)
    ELSE IF options.allVideo THEN VIDEO
    ELSE IF lyric.specialType
         THEN (IF lyric.duration >= minAnimationThreshold THEN ANIMATION ELSE STATIC)
    ELSE IF priority = HIGH /\ lyric.duration >= minVideoThreshold THEN VIDEO
    ELSE IF priority = MEDIUM /\ 2 * lyric.duration >= 3 * minVideoThreshold THEN VIDEO
    ELSE IF lyric.duration >= minAnimationThreshold THEN ANIMATION
    ELSE STATIC

\* determineRenderType(lyric, priority, options); duration >=
\* minVideoThreshold * 1.5 is compared in halves of a second
determineRenderType(lyric, priority, options) ==
    IF options.allVideo THEN VIDEO
    ELSE IF IsDefined(options.forceType) THEN Get(options.forceType)
    ELSE IF lyric.specialType
         THEN (IF lyric.duration >= minAnimationThreshold THEN ANIMATION ELSE STATIC)
    ELSE IF priority = HIGH /\ lyric.duration >= minVideoThreshold THEN VIDEO
    ELSE IF priority = MEDIUM /\ 2 * lyric.duration >= 3 * minVideoThreshold THEN VIDEO
    ELSE IF lyric.duration >= minAnimationThreshold THEN ANIMATION
    ELSE STATIC

\* the priorities classifySegments can pass with a lyric: those
\* analyzePriority gives it at some place of some list
Priorities(lyric) ==
    UNION {{analyzePriority(lyric, i, t) : i \in 0..(t - 1)} : t \in 1..MaxTotal}

\* a call of determineRenderType that has not returned
RenderCall(lyric, priority, options) ==
    [fn |-> "determineRenderType", lyric |-> lyric, priority |-> priority,
     options |-> options, result |-> Undefined]

RenderCalls ==
    UNION {{RenderCall(l, p, o) : p \in Priorities(l), o \in RenderOptions} : l \in Lyrics}

\* the lyrics given to classifySegments with their place in time, as the LRC
\* parser leaves them
ClassifyLyrics ==
    {[i \in DOMAIN shapes |->
         [specialType |-> shapes[i].specialType,
          startTime |-> StartOf(shapes, i),
          endTime |-> StartOf(shapes, i) + shapes[i].duration,
          duration |-> shapes[i].duration]] :
     shapes \in UNION {[1..n -> [specialType : BOOLEAN, duration : {1, 5, 12}]] :
                       n \in 1..MaxClassified}}

\* classifySegments(lyrics, storyboard, options) of the classifier
classifySegments(lyrics, options) ==
    [i \in DOMAIN lyrics |->
        LET lyric == lyrics[i]
            priority == analyzePriority(lyric, i - 1, Len(lyrics))
            renderType == determineRenderType(lyric, priority, options)
        IN  [index |-> i,
             startTime |-> lyric.startTime,
             endTime |-> lyric.endTime,
             duration |-> lyric.duration,
             specialType |-> lyric.specialType,
             priority |-> priority,
             renderType |-> renderType,
             videoDuration |-> IF renderType = VIDEO
                               THEN Some(calculateVideoDuration(lyric.duration))
                               ELSE Undefined]]

\* the options of classifySegments of the pipeline: those of the classifier,
\* budget.maxVideos when a budget is given, and mergeShort
ClassifyOptions ==
    [render : {o \in RenderOptions : o.allVideo => ~IsDefined(o.forceType)},
     budget : {Undefined, Some(0), Some(1)},
     mergeShort : BOOLEAN]

\* classifySegments of the pipeline: the lists after the classifier, after
\* optimizeForBudget when a budget is given, and after mergeAdjacentSegments
\* when mergeShort is set; the last one is stored
ClassifiedStages(lyrics, options) ==
    LET classified == classifySegments(lyrics, options.render)
        budgeted == optimizeForBudget(classified, Get(options.budget))
        afterBudget == IF IsDefined(options.budget) THEN <<classified, budgeted>>
                       ELSE <<classified>>
    IN  IF options.mergeShort
        THEN Append(afterBudget, mergeAdjacentSegments(afterBudget[Len(afterBudget)], 2))
        ELSE afterBudget

\* a call of classifySegments of the pipeline that has not returned
ClassifyCall(lyrics, options) ==
    [fn |-> "classifySegments", lyrics |-> lyrics, options |-> options,
     result |-> Undefined]

\* a call of optimizeForBudget that has not returned
BudgetCall(classified, maxVideos) ==
    [fn |-> "optimizeForBudget", classified |-> classified,
     maxVideos |-> maxVideos, result |-> Undefined]

InitClassifier ==
    /\ Constructed
    /\ call \in {BudgetCall(c, m) : c \in ClassifiedLists, m \in 0..MaxBudget}
                 \cup {MergeCall(c, t) : c \in Timelines, t \in MergeThresholds}
                 \cup {c \in PriorityCalls : c.index < c.total}
                 \cup RenderCalls
                 \cup {ClassifyCall(l, o) : l \in ClassifyLyrics, o \in ClassifyOptions}

\* the call of optimizeForBudget returns
OptimizeForBudget ==
    /\ call.fn = "optimizeForBudget"
    /\ ~IsDefined(call.result)
    /\ call' = [call EXCEPT !.result = Some(optimizeForBudget(call.classified, call.maxVideos))]
    /\ UNCHANGED <<status, progress, error, data, saved, lrcContent,
                   asrJobs, runs, regens, videoJobs, reply, requests>>

\* the call of mergeAdjacentSegments returns
MergeAdjacentSegments ==
    /\ call.fn = "mergeAdjacentSegments"
    /\ ~IsDefined(call.result)
    /\ call' = [call EXCEPT !.result =
                    Some(mergeAdjacentSegments(call.classified, call.mergeThreshold))]
    /\ UNCHANGED <<status, progress, error, data, saved, lrcContent,
                   asrJobs, runs, regens, videoJobs, reply, requests>>

\* the call of analyzePriority returns
AnalyzePriority ==
    /\ call.fn = "analyzePriority"
    /\ ~IsDefined(call.result)
    /\ call' = [call EXCEPT !.result =
                    Some(analyzePriority(call.lyric, call.index, call.total))]
    /\ UNCHANGED <<status, progress, error, data, saved, lrcContent,
                   asrJobs, runs, regens, videoJobs, reply, requests>>

\* the call of determineRenderType returns
DetermineRenderType ==
    /\ call.fn = "determineRenderType"
    /\ ~IsDefined(call.result)
    /\ call' = [call EXCEPT !.result =
                    Some(determineRenderType(call.lyric, call.priority, call.options))]
    /\ UNCHANGED <<status, progress, error, data, saved, lrcContent,
                   asrJobs, runs, regens, videoJobs, reply, requests>>

\* the call of classifySegments of the pipeline returns
ClassifySegments ==
    /\ call.fn = "classifySegments"
    /\ ~IsDefined(call.result)
    /\ call' = [call EXCEPT !.result = Some(ClassifiedStages(call.lyrics, call.options))]
    /\ UNCHANGED <<status, progress, error, data, saved, lrcContent,
                   asrJobs, runs, regens, videoJobs, reply, requests>>

NextClassifier ==
    \/ OptimizeForBudget
    \/ MergeAdjacentSegments
    \/ AnalyzePriority
    \/ DetermineRenderType
    \/ ClassifySegments

SpecClassifier == InitClassifier /\ [][NextClassifier]_vars

\* ------------------------------------------------------------------ composer
\* composeMV of the composer and the functions it calls.  Durations are in
\* hundredths of a second.  The state of a call is the record call: its
\* arguments, the files in videoDir, the place the call has reached (pc), and
\* the files the ffmpeg runs have written.

\* the largest number of segments given to composeMV
MaxClips == 2

\* segment.duration of the segments given to composeMV
Targets == {500, 1000}

\* what getMediaDuration measures on a clip
Measured == {400, 800, 1000, 1015, 1200}

Abs(x) == IF x < 0 THEN 0 - x ELSE x

\* a path in videoDir or in the adjusted directory
Path(kind, index) == [kind |-> kind, index |-> index]

\* how the ffmpeg runs of one adjustVideoDuration end: the trim, the
\* slowdown, and the three runs of extendWithFreezeFrame
ExecOutcomes ==
    [trim : BOOLEAN, slowdown : BOOLEAN, freeze : {"ok", "extract", "generate", "concat"}]

\* what a settled adjustVideoDuration leaves behind: how the promise settled,
\* the fields of the result, the ffmpeg methods run in order, and the duration
\* of the clip at outputPath when there is one
Resolved(adjusted, method, attempts, freezeDuration, clip) ==
    [settled |-> "resolved", adjusted |-> adjusted, method |-> method,
     attempts |-> attempts, freezeDuration |-> freezeDuration, clip |-> Some(clip)]

Rejected(attempts) ==
    [settled |-> "rejected", adjusted |-> Undefined, method |-> Undefined,
     attempts |-> attempts, freezeDuration |-> Undefined, clip |-> Undefined]

\* extendWithFreezeFrame(inputPath, outputPath, actualDuration, targetDuration)
\* after the methods in tried: the still lasts freezeDuration.toFixed(2)
\* seconds and follows the input clip
extendWithFreezeFrame(actualDuration, targetDuration, ok, tried) ==
    LET freezeDuration == targetDuration - actualDuration
    IN  IF ok.freeze = "ok"
        THEN Resolved(TRUE, Some("freeze"), Append(tried, "freeze"),
                      Some(freezeDuration), actualDuration + freezeDuration)
        ELSE Rejected(Append(tried, "freeze"))

\* variant of the slowdown test that sends a ratio of exactly 1.5 to the
\* freeze frame
RatioBelowSlowdownLimit(actualDuration, targetDuration) ==
    2 * targetDuration < 3 * actualDuration

\* ratio <= 1.5 with ratio = targetDuration / actualDuration
RatioWithinSlowdown(actualDuration, targetDuration) ==
    2 * targetDuration <= 3 * actualDuration

\* the duration of a clip slowed down by setpts=ratio.toFixed(4)*PTS and cut
\* with -t targetDuration
SlowedDown(actualDuration, targetDuration) ==
    LET ptsMultiplier == Round(targetDuration * 10000, actualDuration)
        stretched == (ptsMultiplier * actualDuration) \div 10000
    IN  IF stretched < targetDuration THEN stretched ELSE targetDuration

\* adjustVideoDuration(inputPath, outputPath, targetDuration) on a clip that
\* measures actualDuration, with the ffmpeg runs ending as ok says
adjustVideoDuration(actualDuration, targetDuration, ok) ==
    IF Abs(actualDuration - targetDuration) < 10
    THEN Resolved(FALSE, Undefined, <<>>, Undefined, actualDuration)
    ELSE IF actualDuration > targetDuration
    THEN (IF ok.trim
          THEN Resolved(TRUE, Some("trim"), <<"trim">>, Undefined, targetDuration)
          ELSE Rejected(<<"trim">>))
    ELSE IF RatioWithinSlowdown(actualDuration, targetDuration)
    THEN (IF ok.slowdown
          THEN Resolved(TRUE, Some("slowdown"), <<"slowdown">>, Undefined,
                        SlowedDown(actualDuration, targetDuration))
          ELSE extendWithFreezeFrame(actualDuration, targetDuration, ok, <<"slowdown">>))
    ELSE extendWithFreezeFrame(actualDuration, targetDuration, ok, <<>>)

\* the files of one segment in videoDir: whether video_NNN.mp4 and
\* animated_NNN.mp4 exist, and what the clip composeMV picks measures
ClipFiles == [video : BOOLEAN, animated : BOOLEAN, measured : Measured]

\* variant of the clip resolution that prefers the AI video for every
\* render type
resolveVideoFirst(renderType, files) ==
    IF files.video THEN Some("video")
    ELSE IF files.animated THEN Some("animated")
    ELSE Undefined

\* the file composeMV uses for a segment, when one exists
resolveClip(renderType, files) ==
    IF renderType = VIDEO
    THEN (IF files.video THEN Some("video")
          ELSE IF files.animated THEN Some("animated")
          ELSE Undefined)
    ELSE (IF files.animated THEN Some("animated")
          ELSE IF files.video THEN Some("video")
          ELSE Undefined)

\* variant of the catch of composeMV that records the target duration
AdjustFailedWithTarget(segment, videoFile, actualDuration) ==
    [index |-> segment.index, path |-> videoFile,
     duration |-> segment.duration, adjusted |-> Some(FALSE)]

\* what composeMV pushes when adjustVideoDuration rejects
AdjustFailed(segment, videoFile, actualDuration) ==
    [index |-> segment.index, path |-> videoFile,
     duration |-> actualDuration, adjusted |-> Some(FALSE)]

\* what composeMV pushes to videoSegments for a segment whose file exists,
\* and the clip that then lies at that path: the ffmpeg methods run for it
\* and its duration
CollectedClip(segment, videoFile, actualDuration, ok) ==
    IF Abs(actualDuration - segment.duration) > 20
    THEN LET result == adjustVideoDuration(actualDuration, segment.duration, ok)
         IN  IF result.settled = "resolved"
             THEN [pushed |-> [index |-> segment.index,
                               path |-> Path("adjusted", segment.index),
                               duration |-> segment.duration,
                               adjusted |-> Some(TRUE)],
                   attempts |-> result.attempts, settled |-> Some("resolved"),
                   clip |-> Get(result.clip)]
             ELSE [pushed |-> AdjustFailed(segment, videoFile, actualDuration),
                   attempts |-> result.attempts, settled |-> Some("rejected"),
                   clip |-> actualDuration]
    ELSE [pushed |-> [index |-> segment.index, path |-> videoFile,
                      duration |-> actualDuration, adjusted |-> Undefined],
          attempts |-> <<>>, settled |-> Undefined, clip |-> actualDuration]

\* what composeMV returns, and the error it throws
Composed == [success |-> TRUE, message |-> Undefined]
Thrown(message) == [success |-> FALSE, message |-> Some(message)]

\* the segments given to composeMV
ComposeSegments ==
    UNION {{[i \in 1..n |-> [index |-> i, renderType |-> r[i], duration |-> d[i]]] :
                r \in [1..n -> {VIDEO, ANIMATION, STATIC}], d \in [1..n -> Targets]} :
           n \in 1..MaxClips}

\* a call of composeMV that has not started
ComposeCall(segments, files, useTransition) ==
    [fn |-> "composeMV", segments |-> segments, files |-> files,
     useTransition |-> useTransition, pc |-> "collect", k |-> 1,
     videoSegments |-> <<>>, clips |-> <<>>, concats |-> <<>>, result |-> Undefined]

\* a call of adjustVideoDuration that has not settled
AdjustCall(actualDuration, targetDuration) ==
    [fn |-> "adjustVideoDuration", actualDuration |-> actualDuration,
     targetDuration |-> targetDuration, result |-> Undefined]

\* what getMediaDuration measures on the subtitled video and on the audio
SubtitledDurations == {400, 940, 950, 1000, 1015, 1200, 1300}
AudioDurations == {1000, 1200}

\* variant of the padding test without the half second of tolerance
ShorterThanAudio(videoDuration, audioDuration) ==
    videoDuration < audioDuration

\* videoDuration < audioDuration - 0.5
NeedsPadding(videoDuration, audioDuration) ==
    videoDuration < audioDuration - 50

\* addAudioTrack(videoPath, audioPath, outputPath) as composeMV calls it,
\* without options, so that targetDuration is audioDuration: the tpad filter
\* with stop_duration = padDuration.toFixed(2) when the video needs padding,
\* the -t limit, and the duration of the output, the longer of the video and
\* audio streams cut at the limit
addAudioTrack(videoDuration, audioDuration, ok) ==
    LET targetDuration == audioDuration
        padDuration == audioDuration - videoDuration
        padded == NeedsPadding(videoDuration, audioDuration)
        video == IF padded THEN videoDuration + padDuration ELSE videoDuration
        limit == IF padded THEN audioDuration ELSE targetDuration
        longest == IF video > audioDuration THEN video ELSE audioDuration
    IN  IF ok
        THEN [settled |-> "resolved",
              stop_duration |-> IF padded THEN Some(padDuration) ELSE Undefined,
              t |-> Some(limit),
              duration |-> Some(IF longest > limit THEN limit ELSE longest)]
        ELSE [settled |-> "rejected", stop_duration |-> Undefined,
              t |-> Undefined, duration |-> Undefined]

\* a call of addAudioTrack that has not settled
AudioCall(videoDuration, audioDuration) ==
    [fn |-> "addAudioTrack", videoDuration |-> videoDuration,
     audioDuration |-> audioDuration, result |-> Undefined]

InitComposer ==
    /\ Constructed
    /\ call \in {ComposeCall(sg, f, t) : sg \in ComposeSegments,
                                          f \in UNION {[1..n -> ClipFiles] : n \in 1..MaxClips},
                                          t \in BOOLEAN}
                 \cup {AdjustCall(a, t) : a \in Measured \cup {1005}, t \in Targets \cup {600}}
                 \cup {AudioCall(v, a) : v \in SubtitledDurations, a \in AudioDurations}
    /\ call.fn = "composeMV" => Len(call.files) = Len(call.segments)

PipelineUnchanged ==
    UNCHANGED <<status, progress, error, data, saved, lrcContent,
                asrJobs, runs, regens, videoJobs, reply, requests>>

\* adjustVideoDuration, called by itself, settles
AdjustVideoDuration ==
    /\ call.fn = "adjustVideoDuration"
    /\ ~IsDefined(call.result)
    /\ \E ok \in ExecOutcomes :
           call' = [call EXCEPT !.result =
                       Some(adjustVideoDuration(call.actualDuration, call.targetDuration, ok))]
    /\ PipelineUnchanged

\* one turn of the collection loop of composeMV, and after the last turn
\* the test for an empty videoSegments
CollectClip ==
    /\ call.fn = "composeMV"
    /\ call.pc = "collect"
    /\ \E ok \in ExecOutcomes :
           LET segment == call.segments[call.k]
               files == call.files[call.k]
               kind == resolveClip(segment.renderType, files)
               collected == CollectedClip(segment, Path(Get(kind), segment.index),
                                          files.measured, ok)
               videoSegments == IF IsDefined(kind)
                                THEN Append(call.videoSegments, collected.pushed)
                                ELSE call.videoSegments
               clips == IF IsDefined(kind)
                        THEN Append(call.clips, [index |-> segment.index,
                                                 file |-> Path(Get(kind), segment.index),
                                                 target |-> segment.duration,
                                                 attempts |-> collected.attempts,
                                                 settled |-> collected.settled,
                                                 clip |-> collected.clip])
                        ELSE call.clips
               last == call.k = Len(call.segments)
           IN  call' = [call EXCEPT
                           !.videoSegments = videoSegments,
                           !.clips = clips,
                           !.k = call.k + 1,
                           !.pc = IF ~last THEN "collect"
                                  ELSE IF Len(videoSegments) = 0 THEN "failed"
                                  ELSE "concat",
                           !.result = IF last /\ Len(videoSegments) = 0
                                      THEN Some(Thrown("No video segments found"))
                                      ELSE Undefined]
    /\ PipelineUnchanged

\* variant in which a failed transition render ends the concat step
TransitionFailureRejects == "failed"

\* where concatVideosWithTransition goes when the xfade render fails
TransitionFailure == "fallback"

\* concatVideosWithTransition: one clip is copied, more are rendered with
\* xfade, which succeeds or fails
concatVideosWithTransition ==
    /\ call.fn = "composeMV"
    /\ call.pc = "concat"
    /\ call.useTransition
    /\ \E ok \in BOOLEAN :
           IF Len(call.videoSegments) = 1
           THEN call' = [call EXCEPT !.pc = "finish"]
           ELSE call' = [call EXCEPT
                            !.concats = Append(@, [method |-> "xfade", ok |-> ok,
                                                   paths |-> [i \in DOMAIN call.videoSegments |->
                                                                 call.videoSegments[i].path]]),
                            !.pc = IF ok THEN "finish" ELSE TransitionFailure,
                            !.result = IF ok \/ TransitionFailure # "failed" THEN Undefined
                                       ELSE Some(Thrown("FFmpeg xfade error"))]
    /\ PipelineUnchanged

\* concatVideos, called by composeMV without transitions or by
\* concatVideosWithTransition after a failed render
concatVideos ==
    /\ call.fn = "composeMV"
    /\ \/ call.pc = "concat" /\ ~call.useTransition
       \/ call.pc = "fallback"
    /\ \E ok \in BOOLEAN :
           call' = [call EXCEPT
                       !.concats = Append(@, [method |-> "concat", ok |-> ok,
                                              paths |-> [i \in DOMAIN call.videoSegments |->
                                                            call.videoSegments[i].path]]),
                       !.pc = IF ok THEN "finish" ELSE "failed",
                       !.result = IF ok THEN Undefined ELSE Some(Thrown("Concat failed"))]
    /\ PipelineUnchanged

\* the rest of composeMV: subtitles, audio track, clean-up
finishMV ==
    /\ call.fn = "composeMV"
    /\ call.pc = "finish"
    /\ \E ok \in BOOLEAN :
           call' = [call EXCEPT
                       !.pc = IF ok THEN "done" ELSE "failed",
                       !.result = IF ok THEN Some(Composed) ELSE Some(Thrown("ffmpeg failed"))]
    /\ PipelineUnchanged

\* addAudioTrack settles
AddAudioTrack ==
    /\ call.fn = "addAudioTrack"
    /\ ~IsDefined(call.result)
    /\ \E ok \in BOOLEAN :
           call' = [call EXCEPT !.result =
                       Some(addAudioTrack(call.videoDuration, call.audioDuration, ok))]
    /\ PipelineUnchanged

NextComposer ==
    \/ AdjustVideoDuration
    \/ AddAudioTrack
    \/ CollectClip
    \/ concatVideosWithTransition
    \/ concatVideos
    \/ finishMV

SpecComposer == InitComposer /\ [][NextComposer]_vars

\* ------------------------------------------------------------- video chain
\* generateVideo of the video generator.  Durations are in tenths of a
\* second.  The state of a call is the record call: the segment's duration,
\* the place the call has reached (pc), the loop variables, the generation
\* calls issued, the frames extracted, and the files on disk.

\* seconds above which a segment is generated as a chain of clips
LONG_SEGMENT_THRESHOLD == 15

\* segment.duration of the segments given to generateVideo
SegmentDurations == {50, 60, 61, 100, 150, 151, 200, 201, 220, 300, 301}

\* variant of the number of clips that rounds to the nearest
numVideosRounded(segmentDuration) == Round(segmentDuration, 100)

\* Math.ceil(segmentDuration / 10)
numVideos(segmentDuration) == (segmentDuration + 99) \div 100

\* variant of the clip length asked for a short segment that asks 10 seconds
\* only above 10 seconds
apiVideoDurationLateSwitch(segmentDuration) == IF segmentDuration <= 100 THEN 6 ELSE 10

\* const apiVideoDuration = segmentDuration <= 6 ? 6 : 10
apiVideoDuration(segmentDuration) == IF segmentDuration <= 60 THEN 6 ELSE 10

\* temp_clip_<index>_<i> and temp_lastframe_<index>_<i>
ClipPath(i) == [kind |-> "clip", i |-> i]
FramePath(i) == [kind |-> "lastframe", i |-> i]

\* the first frames given to a generation call: the segment's image, or the
\* last frame extracted from a clip
FirstFrameImage == [kind |-> "image", from |-> Undefined]
LastFrameOf(clipPath) == [kind |-> "lastframe", from |-> Some(clipPath)]

\* a generation call: its first frame, the duration asked of the API, the
\* path of its output, and whether it runs, succeeded or failed
GenerationCall(frame, duration, output) ==
    [frame |-> frame, duration |-> duration, output |-> output, state |-> "running"]

\* variant of the clean-up that deletes nothing
KeptFiles(files, tempFiles) == files

\* for (const f of tempFiles) fs.unlinkSync(f)
Unlinked(files, tempFiles) == files \ Range(tempFiles)

\* what generateVideo returns
Generated(multiClip, clipCount) ==
    [success |-> TRUE, multiClip |-> multiClip, clipCount |-> clipCount]
NotGenerated == [success |-> FALSE, multiClip |-> Undefined, clipCount |-> Undefined]

\* a call of generateVideo that has not started
GenerateCall(segmentDuration, imageExists) ==
    [fn |-> "generateVideo", duration |-> segmentDuration, imageExists |-> imageExists,
     pc |-> "start", i |-> 0, numVideos |-> 0,
     currentFirstFrame |-> FirstFrameImage,
     calls |-> <<>>, frames |-> <<>>, clipPaths |-> <<>>, tempFiles |-> <<>>,
     files |-> {}, concats |-> <<>>, output |-> FALSE, result |-> Undefined]

\* generateVideos of the video generator: the segments are generated in
\* batches of concurrency calls of generateVideo, and the segments that
\* failed are then animated one by one.

\* the largest number of segments given to generateVideos
MaxVideoSegments == 3

\* image_NNN.png, video_NNN.mp4 and animated_NNN.mp4
MediaPath(kind, index) == [kind |-> kind, index |-> index]

\* the segments given to generateVideos: index and duration in seconds
VideoSegmentLists ==
    UNION {{[p \in 1..n |-> [index |-> p, duration |-> d[p]]] : d \in [1..n -> {5, 20}]} :
           n \in 1..MaxVideoSegments}

\* a call of generateVideos that has not started; exists tells for each
\* segment whether a valid video_NNN.mp4 is already there
BatchCall(segments, exists, concurrency) ==
    [fn |-> "generateVideos", segments |-> segments, exists |-> exists,
     concurrency |-> concurrency, pc |-> "start", i |-> 0,
     settled |-> <<>>, results |-> <<>>, failedSegments |-> <<>>,
     fallbacks |-> <<>>, reported |-> <<>>, result |-> Undefined]

\* the positions of the batch that starts after i segments
BatchAt(c, i) == (i + 1)..(IF i + c.concurrency < Len(c.segments)
                           THEN i + c.concurrency ELSE Len(c.segments))

\* the batch is mapped: a segment whose video exists is skipped, the others
\* wait for generateVideo
Mapped(c, i) ==
    [p \in BatchAt(c, i) |->
        IF c.exists[p]
        THEN Some([success |-> TRUE, index |-> c.segments[p].index, skipped |-> TRUE])
        ELSE Undefined]

\* variant of the fallback loop that leaves out the last failed segment
AllButLast(failedSegments) == SubSeq(failedSegments, 1, Len(failedSegments) - 1)

\* for (const segment of failedSegments)
FallbackSegments(failedSegments) == failedSegments

\* imageAnimator.animateImage(image_NNN.png, animated_NNN.mp4, segment.duration)
\* is called
AnimateCall(segment) ==
    [index |-> segment.index,
     image |-> MediaPath("image", segment.index),
     output |-> MediaPath("animated", segment.index),
     duration |-> segment.duration,
     state |-> "running"]

InitVideoChain ==
    /\ Constructed
    /\ call \in {GenerateCall(d, e) : d \in SegmentDurations, e \in BOOLEAN}
                 \cup UNION {{BatchCall(sg, ex, c) : ex \in [DOMAIN sg -> BOOLEAN],
                                                     c \in 1..DefaultVideoConcurrency} :
                             sg \in VideoSegmentLists}

\* the last call in calls settles as state
Settle(calls, state) == [calls EXCEPT ![Len(calls)].state = state]

\* generateVideo up to its first await: the image is read, and the first
\* generation call of the chain, or the only call of a short segment, is
\* issued
generateVideoStart ==
    /\ call.fn = "generateVideo"
    /\ call.pc = "start"
    /\ call' =
           IF ~call.imageExists
           THEN [call EXCEPT !.pc = "done", !.result = Some(NotGenerated)]
           ELSE IF call.duration > 10 * LONG_SEGMENT_THRESHOLD
           THEN [call EXCEPT
                    !.pc = "clip",
                    !.numVideos = numVideos(call.duration),
                    !.tempFiles = <<ClipPath(0)>>,
                    !.calls = <<GenerationCall(FirstFrameImage, 10, Some(ClipPath(0)))>>]
           ELSE [call EXCEPT
                    !.pc = "single",
                    !.calls = <<GenerationCall(FirstFrameImage,
                                               apiVideoDuration(call.duration),
                                               Undefined)>>]
    /\ PipelineUnchanged

\* generateSingleVideoClip of the chain settles.  A success before the last
\* clip starts the extraction of the last frame; the success of the last clip
\* is followed by concatVideos, which runs ffmpeg synchronously, the clean-up
\* and the return; a failure, which may leave a partial download, deletes the
\* temporary files and ends the call.
ClipSettled ==
    /\ call.fn = "generateVideo"
    /\ call.pc = "clip"
    /\ \E ok \in BOOLEAN, partial \in BOOLEAN, concatOk \in BOOLEAN :
           LET clipPath == ClipPath(call.i)
               clipPaths == Append(call.clipPaths, clipPath)
           IN  call' =
                   IF ~ok
                   THEN [call EXCEPT
                            !.calls = Settle(@, "failed"),
                            !.files = Unlinked(IF partial THEN @ \cup {clipPath} ELSE @,
                                               call.tempFiles),
                            !.pc = "done",
                            !.result = Some(NotGenerated)]
                   ELSE IF call.i < call.numVideos - 1
                   THEN [call EXCEPT
                            !.calls = Settle(@, "ok"),
                            !.files = @ \cup {clipPath},
                            !.clipPaths = clipPaths,
                            !.tempFiles = Append(@, FramePath(call.i)),
                            !.frames = Append(@, [from |-> clipPath, state |-> "running"]),
                            !.pc = "extract"]
                   ELSE [call EXCEPT
                            !.calls = Settle(@, "ok"),
                            !.clipPaths = clipPaths,
                            !.concats = Append(@, [paths |-> clipPaths, ok |-> concatOk]),
                            !.output = IF concatOk THEN TRUE ELSE partial,
                            !.files = IF concatOk
                                      THEN Unlinked(@ \cup {clipPath}, call.tempFiles)
                                      ELSE @ \cup {clipPath},
                            !.pc = "done",
                            !.result = IF concatOk
                                       THEN Some(Generated(TRUE, call.numVideos))
                                       ELSE Some(NotGenerated)]
    /\ PipelineUnchanged

\* extractLastFrame settles: the frame becomes the first frame of the next
\* call and the 3 second pause begins, or the temporary files are deleted and
\* the call ends
ExtractSettled ==
    /\ call.fn = "generateVideo"
    /\ call.pc = "extract"
    /\ \E ok \in BOOLEAN :
           call' =
               IF ok
               THEN [call EXCEPT
                        !.frames = Settle(@, "ok"),
                        !.files = @ \cup {FramePath(call.i)},
                        !.currentFirstFrame = LastFrameOf(ClipPath(call.i)),
                        !.pc = "wait"]
               ELSE [call EXCEPT
                        !.frames = Settle(@, "failed"),
                        !.files = Unlinked(@, call.tempFiles),
                        !.pc = "done",
                        !.result = Some(NotGenerated)]
    /\ PipelineUnchanged

\* the pause ends: the next turn of the loop issues its generation call
NextClip ==
    /\ call.fn = "generateVideo"
    /\ call.pc = "wait"
    /\ call' = [call EXCEPT
                   !.i = @ + 1,
                   !.tempFiles = Append(@, ClipPath(call.i + 1)),
                   !.calls = Append(@, GenerationCall(call.currentFirstFrame, 10,
                                                      Some(ClipPath(call.i + 1)))),
                   !.pc = "clip"]
    /\ PipelineUnchanged

\* the generation of a short segment settles
SingleSettled ==
    /\ call.fn = "generateVideo"
    /\ call.pc = "single"
    /\ \E ok \in BOOLEAN :
           call' = [call EXCEPT
                       !.calls = Settle(@, IF ok THEN "ok" ELSE "failed"),
                       !.output = ok,
                       !.pc = "done",
                       !.result = IF ok THEN Some(Generated(Undefined, Undefined))
                                  ELSE Some(NotGenerated)]
    /\ PipelineUnchanged

\* generateVideos starts its first batch
StartBatches ==
    /\ call.fn = "generateVideos"
    /\ call.pc = "start"
    /\ call' = [call EXCEPT !.pc = "batch", !.settled = Mapped(call, 0)]
    /\ PipelineUnchanged

\* a generateVideo of the batch returns; a failure is pushed to
\* failedSegments
VideoSettled ==
    /\ call.fn = "generateVideos"
    /\ call.pc = "batch"
    /\ \E p \in DOMAIN call.settled, ok \in BOOLEAN :
           /\ ~IsDefined(call.settled[p])
           /\ call' = [call EXCEPT
                           !.settled[p] = Some([success |-> ok,
                                                index |-> call.segments[p].index,
                                                skipped |-> FALSE]),
                           !.failedSegments = IF ok THEN @ ELSE Append(@, call.segments[p])]
    /\ PipelineUnchanged

\* Promise.all of the batch resolves: the results are pushed in the order of
\* the batch and the progress is reported; then comes the delay before the
\* next batch, or the first fallback animation, or the return
BatchSettled ==
    /\ call.fn = "generateVideos"
    /\ call.pc = "batch"
    /\ \A p \in DOMAIN call.settled : IsDefined(call.settled[p])
    /\ LET total == Len(call.segments)
           batch == BatchAt(call, call.i)
           results == call.results \o [n \in 1..Cardinality(batch) |->
                                          Get(call.settled[call.i + n])]
           completed == IF call.i + call.concurrency < total
                        THEN call.i + call.concurrency ELSE total
           failed == FallbackSegments(call.failedSegments)
       IN  call' = [call EXCEPT
                       !.results = results,
                       !.reported = Append(@, Round(completed * 100, total)),
                       !.settled = <<>>,
                       !.pc = IF call.i + call.concurrency < total THEN "delay"
                              ELSE IF Len(failed) > 0 THEN "fallback"
                              ELSE "done",
                       !.fallbacks = IF call.i + call.concurrency >= total /\ Len(failed) > 0
                                     THEN <<AnimateCall(failed[1])>>
                                     ELSE @,
                       !.result = IF call.i + call.concurrency >= total /\ Len(failed) = 0
                                  THEN Some(results)
                                  ELSE Undefined]
    /\ PipelineUnchanged

\* the delay between two batches ends and the next batch starts
NextBatch ==
    /\ call.fn = "generateVideos"
    /\ call.pc = "delay"
    /\ call' = [call EXCEPT
                   !.i = @ + call.concurrency,
                   !.settled = Mapped(call, call.i + call.concurrency),
                   !.pc = "batch"]
    /\ PipelineUnchanged

\* animateImage of a failed segment resolves or throws, which is caught; the
\* next failed segment is animated, or generateVideos returns
FallbackSettled ==
    /\ call.fn = "generateVideos"
    /\ call.pc = "fallback"
    /\ \E ok \in BOOLEAN :
           LET failed == FallbackSegments(call.failedSegments)
               fallbacks == Settle(call.fallbacks, IF ok THEN "ok" ELSE "failed")
               more == Len(fallbacks) < Len(failed)
           IN  call' = [call EXCEPT
                           !.fallbacks = IF more
                                         THEN Append(fallbacks,
                                                     AnimateCall(failed[Len(fallbacks) + 1]))
                                         ELSE fallbacks,
                           !.pc = IF more THEN "fallback" ELSE "done",
                           !.result = IF more THEN Undefined ELSE Some(call.results)]
    /\ PipelineUnchanged

NextVideoChain ==
    \/ StartBatches
    \/ VideoSettled
    \/ BatchSettled
    \/ NextBatch
    \/ FallbackSettled
    \/ generateVideoStart
    \/ ClipSettled
    \/ ExtractSettled
    \/ NextClip
    \/ SingleSettled

SpecVideoChain == InitVideoChain /\ [][NextVideoChain]_vars

\* ---------------------------------------------------------------- LRC parser
\* parseLRC of the LRC parser.  Times are in milliseconds.

\* the largest number of lines of an LRC text
MaxLines == 2

\* the time stamps of the lines: minutes, seconds and the digits after the
\* point, as written
TimeStamps ==
    {[minutes |-> 0, seconds |-> 0, fraction |-> <<>>],
     [minutes |-> 0, seconds |-> 10, fraction |-> <<5>>],
     [minutes |-> 1, seconds |-> 15, fraction |-> <<0, 2, 5, 9>>]}

\* match[3].padEnd(3, '0').substring(0, 3) read as a number
Milliseconds(fraction) ==
    LET digit(n) == IF n <= Len(fraction) THEN fraction[n] ELSE 0
    IN  100 * digit(1) + 10 * digit(2) + digit(3)

\* parseTimeStamp(timeStr)
parseTimeStamp(stamp) ==
    stamp.minutes * 60000 + stamp.seconds * 1000 + Milliseconds(stamp.fraction)

\* the lines of an LRC text: a metadata tag, a line of time stamps without
\* text, or one or two time stamps followed by a lyric or by a mark such as
\* [intro]
LrcLines ==
    {[kind |-> "metadata", stamps |-> <<>>, text |-> "ti"],
     [kind |-> "lyric", stamps |-> <<CHOOSE t \in TimeStamps : TRUE>>, text |-> ""]}
    \cup [kind : {"lyric"},
          stamps : UNION {[1..n -> TimeStamps] : n \in 1..2},
          text : {"la", "[intro]"}]

\* detectSpecialSegment(text)
detectSpecialSegment(text) == IF text = "[intro]" THEN Some("prelude") ELSE Undefined

\* the lyrics pushed for one line: none for a metadata tag or an empty text,
\* one for every time stamp otherwise
Pushed(line) ==
    IF line.kind = "metadata" \/ line.text = "" THEN <<>>
    ELSE [n \in DOMAIN line.stamps |->
             [startTime |-> parseTimeStamp(line.stamps[n]),
              text |-> line.text,
              specialType |-> detectSpecialSegment(line.text)]]

\* the lyrics pushed for the lines up to line n
RECURSIVE PushedUpTo(_, _)
PushedUpTo(lines, n) ==
    IF n = 0 THEN <<>> ELSE PushedUpTo(lines, n - 1) \o Pushed(lines[n])

\* one lyric enters a list sorted by startTime, behind those that start no
\* later
InsertByStart(sorted, lyric) ==
    LET before == SelectSeq(sorted, LAMBDA l : l.startTime <= lyric.startTime)
        after == SelectSeq(sorted, LAMBDA l : l.startTime > lyric.startTime)
    IN  before \o <<lyric>> \o after

\* lyrics.sort((a, b) => a.startTime - b.startTime) on the first n lyrics
RECURSIVE SortedByStart(_, _)
SortedByStart(lyrics, n) ==
    IF n = 0 THEN <<>> ELSE InsertByStart(SortedByStart(lyrics, n - 1), lyrics[n])

\* totalDuration || (lyrics[i].startTime + 5)
LastEndTime(startTime, totalDuration) ==
    IF IsDefined(totalDuration) /\ Get(totalDuration) # 0
    THEN Get(totalDuration) ELSE startTime + 5000

\* parseLRC(lrcContent, totalDuration): the lyrics of the result
parseLRC(lines, totalDuration) ==
    LET pushed == PushedUpTo(lines, Len(lines))
        lyrics == SortedByStart(pushed, Len(pushed))
    IN  [i \in DOMAIN lyrics |->
            LET endTime == IF i < Len(lyrics) THEN lyrics[i + 1].startTime
                           ELSE LastEndTime(lyrics[i].startTime, totalDuration)
            IN  [startTime |-> lyrics[i].startTime,
                 endTime |-> endTime,
                 text |-> lyrics[i].text,
                 specialType |-> lyrics[i].specialType,
                 duration |-> endTime - lyrics[i].startTime,
                 index |-> i]]

\* the audio durations given to parseLRC: none, zero, or a length
TotalDurations == {Undefined, Some(0), Some(5000), Some(180000)}

\* a call of parseLRC that has not returned
ParseCall(lines, totalDuration) ==
    [fn |-> "parseLRC", lines |-> lines, totalDuration |-> totalDuration,
     result |-> Undefined]

InitParser ==
    /\ Constructed
    /\ call \in {ParseCall(l, t) : l \in UNION {[1..n -> LrcLines] : n \in 0..MaxLines},
                                   t \in TotalDurations}

\* the call of parseLRC returns
ParseLRC ==
    /\ call.fn = "parseLRC"
    /\ ~IsDefined(call.result)
    /\ call' = [call EXCEPT !.result = Some(parseLRC(call.lines, call.totalDuration))]
    /\ UNCHANGED <<status, progress, error, data, saved, lrcContent,
                   asrJobs, runs, regens, videoJobs, reply, requests>>

NextParser ==
    \/ ParseLRC

SpecParser == InitParser /\ [][NextParser]_vars

\* ------------------------------------------------ requests with retries
\* callImageAPI(prompt, options, retries = 3) of the image generator and
\* createVideoTask(params, retries = 3) of the video generator: one https
\* request per call, and a new call with retries - 1 from the handlers of the
\* request.  Every call forwards the outcome of the call it starts to its own
\* resolve and reject, and a promise keeps its first outcome, so the promise
\* of the top-level call takes the first outcome any call of the tree passes
\* to resolve or reject.
DefaultRetries == 3

RetryFunctions == {"callImageAPI", "createVideoTask"}

\* what ends a request: a 200 answer with a valid body, a 502/503/504 answer,
\* any other answer that is refused (status, API error, parse error), a
\* connection error the handler retries (ECONNRESET, ETIMEDOUT, socket hang
\* up), any other error
Responses == {"ok", "gateway", "refused"}
Errors == {"reset", "other"}

\* the handler of res 'end': "retry", "resolve" or "reject"
OnResponse(fn, retries, response) ==
    IF fn = "callImageAPI"
    THEN IF response = "gateway" /\ retries > 0 THEN "retry"
         ELSE IF response = "ok" THEN "resolve"
         ELSE "reject"
    \* createVideoTask resolves with every body that parses
    ELSE IF response = "refused" THEN "reject" ELSE "resolve"

\* the handler of req 'error'
OnError(retries, err) ==
    IF retries > 0 /\ err = "reset" THEN "retry" ELSE "reject"

\* the handler of req 'timeout', after req.destroy()
OnTimeout(retries) ==
    IF retries > 0 THEN "retry" ELSE "reject"

\* a call of fn with this number of retries, not yet started.  hasKey: the
\* API key (token) is configured.  pending: the retries of the calls whose
\* request is in flight; issued: the https requests made so far; result: the
\* outcome of the top-level promise
RetryCall(fn, retries, hasKey) ==
    [fn |-> fn, retries |-> retries, hasKey |-> hasKey, started |-> FALSE,
     pending |-> EmptyBag, issued |-> 0, result |-> Undefined]

RetryCalls ==
    {RetryCall(fn, retries, hasKey) :
        fn \in RetryFunctions, retries \in 0..DefaultRetries, hasKey \in BOOLEAN}

\* the handlers that ran for one request have these outcomes, in this order:
\* every "retry" starts a call with retries - 1, which issues its request;
\* every "resolve" and "reject" reaches the top-level promise, which keeps
\* the first
Handled(c, retries, outcomes) ==
    LET retried == Len(SelectSeq(outcomes, LAMBDA o : o = "retry"))
        settling == SelectSeq(outcomes, LAMBDA o : o \in {"resolve", "reject"})
        children == IF retried = 0 THEN EmptyBag
                    ELSE [x \in {retries - 1} |-> retried]
    IN  [c EXCEPT !.pending = Take(c.pending, retries) (+) children,
                  !.issued = c.issued + retried,
                  !.result = IF IsDefined(c.result) \/ settling = <<>> THEN c.result
                             ELSE Some(settling[1])]

InitRetry ==
    /\ Constructed
    /\ call \in RetryCalls

\* the top-level call starts: without an API key it rejects, otherwise the
\* first request is issued
StartRequest ==
    /\ call.fn \in RetryFunctions
    /\ ~call.started
    /\ call' = IF ~call.hasKey
               THEN [call EXCEPT !.started = TRUE, !.result = Some("reject")]
               ELSE [call EXCEPT !.started = TRUE, !.issued = 1,
                                 !.pending = SetToBag({call.retries})]
    /\ PipelineUnchanged

\* a request is answered
RequestAnswered(retries, response) ==
    /\ call.fn \in RetryFunctions
    /\ BagIn(retries, call.pending)
    /\ call' = Handled(call, retries, <<OnResponse(call.fn, retries, response)>>)
    /\ PipelineUnchanged

\* a request fails with a connection error
RequestFailed(retries, err) ==
    /\ call.fn \in RetryFunctions
    /\ BagIn(retries, call.pending)
    /\ call' = Handled(call, retries, <<OnError(retries, err)>>)
    /\ PipelineUnchanged

\* a request times out: the timeout handler destroys it, and the destroyed
\* request emits 'error' with a socket hang up, or does not
RequestTimedOut(retries, emitsError) ==
    /\ call.fn \in RetryFunctions
    /\ BagIn(retries, call.pending)
    /\ call' = Handled(call, retries,
                       IF emitsError THEN <<OnTimeout(retries), OnError(retries, "reset")>>
                       ELSE <<OnTimeout(retries)>>)
    /\ PipelineUnchanged

NextRetry ==
    \/ StartRequest
    \/ \E retries \in 0..DefaultRetries, response \in Responses :
           RequestAnswered(retries, response)
    \/ \E retries \in 0..DefaultRetries, err \in Errors : RequestFailed(retries, err)
    \/ \E retries \in 0..DefaultRetries, emitsError \in BOOLEAN :
           RequestTimedOut(retries, emitsError)

SpecRetry == InitRetry /\ [][NextRetry]_vars

\* -------------------------------------------------------------- properties
\* an image waits for a decision or for the end of its regeneration
HasUnconfirmedImage ==
    \/ data.imageConfirmation.pending # <<>>
    \/ data.imageConfirmation.regenerating # <<>>

NoDuplicates(s) == \A i, j \in DOMAIN s : s[i] = s[j] => i = j

\* the image of this index was generated with success
IsGenerated(index) ==
    /\ IsDefined(data.imageResults)
    /\ \E i \in DOMAIN Get(data.imageResults) :
           /\ Get(data.imageResults)[i].index = index
           /\ Get(data.imageResults)[i].success

\* everything of the project but the answer of the request
ProjectUnchanged ==
    UNCHANGED <<status, progress, error, data, saved, lrcContent,
                asrJobs, runs, regens, videoJobs>>

\* C1: once generateImages has completed, in every state the lists
\* confirmed, pending and regenerating hold no index twice, are pairwise
\* disjoint, and together hold exactly the indexes generated with success.
ImageListsPartition ==
    IsDefined(data.imageResults) =>
        LET c == data.imageConfirmation
        IN  /\ NoDuplicates(c.confirmed)
            /\ NoDuplicates(c.pending)
            /\ NoDuplicates(c.regenerating)
            /\ Range(c.confirmed) \cap Range(c.pending) = {}
            /\ Range(c.confirmed) \cap Range(c.regenerating) = {}
            /\ Range(c.pending) \cap Range(c.regenerating) = {}
            /\ Range(c.confirmed) \cup Range(c.pending) \cup Range(c.regenerating)
                   = Range(SuccessIndexes(Get(data.imageResults)))

\* C2: while the status is AWAITING_IMAGE_CONFIRM and an image is pending or
\* regenerating, no step changes the status.
AwaitingImageConfirmBlocks ==
    [][(status = AWAITING_IMAGE_CONFIRM /\ HasUnconfirmedImage) => status' = status]_vars

\* C3: generateVideos or continueAfterImageConfirmation called while an image
\* is pending or regenerating answers with the gate error, starts no video
\* job, and leaves status, progress, error, data and the saved snapshot alone.
ClosedImageGateRefuses ==
    [][\A allVideo \in BOOLEAN, tier \in SUBSET (1..MaxSegments), conc \in Concurrencies :
          (/\ HasUnconfirmedImage
           /\ \/ generateVideos(allVideo, tier, conc)
              \/ continueAfterImageConfirmation(conc))
          => /\ reply'.result = GateError
             /\ videoJobs' = videoJobs
             /\ UNCHANGED <<status, progress, error, data, saved>>]_vars

\* C3 happens: a video stage was refused while a regeneration was the only
\* thing keeping the gate closed
ClosedImageGateRefused ==
    /\ reply.result = GateError
    /\ reply.op \in {"generateVideos", "continueAfterImageConfirmation"}
    /\ status = AWAITING_IMAGE_CONFIRM
    /\ data.imageConfirmation.pending = <<>>
    /\ data.imageConfirmation.regenerating # <<>>

\* C4: the end of video generation does not start the composition: the
\* step that stores the video results never sets the status to COMPOSING_MV
\* (the videos wait at their own gate first).
VideosWaitForConfirmation ==
    [][\A j \in BagToSet(videoJobs), ok \in SUBSET (1..MaxSegments) :
          generateVideosComplete(j, ok) => status' # COMPOSING_MV]_vars

\* C5: when the image request of regenerateImage(index) fails, and no other
\* operation is suspended, the call ends with index out of regenerating and
\* with confirmed and pending as they were.
FailedRegenerationRestoresLists ==
    [][\A c \in BagToSet(regens) :
          (/\ InFlight = 1
           /\ ~c.stale
           /\ regenerateImageDone(c, FALSE))
          => /\ ~Includes(data'.imageConfirmation.regenerating, c.index)
             /\ data'.imageConfirmation.confirmed = data.imageConfirmation.confirmed
             /\ data'.imageConfirmation.pending = data.imageConfirmation.pending]_vars

GenerateImagesSeedsPending ==
    [][\A r \in BagToSet(runs), success \in BOOLEAN :
          GenerateImagesComplete(r, success)
          => LET ok == IF success THEN r.ok \cup {r.total} ELSE r.ok
                 c == data'.imageConfirmation
             IN  /\ Range(c.pending) = ok
                 /\ NoDuplicates(c.pending)
                 /\ c.confirmed = <<>>
                 /\ c.regenerating = <<>>
                 /\ status' = AWAITING_IMAGE_CONFIRM
                 /\ error' = error
                 /\ reply' = Reply("runUntilImageConfirmation", Served)
                 /\ \A i \in 1..r.total :
                        i \notin ok => /\ ~Includes(c.pending, i)
                                       /\ ~IsGenerated(i)']_vars

\* C8 happens: generateImages has completed with one image generated and one
\* failed
GeneratedWithOneFailure ==
    /\ reply = Reply("runUntilImageConfirmation", Served)
    /\ status = AWAITING_IMAGE_CONFIRM
    /\ IsDefined(data.imageResults)
    /\ Len(Get(data.imageResults)) = 2
    /\ Len(data.imageConfirmation.pending) = 1
    /\ data.imageConfirmation.confirmed = <<>>

\* C9: confirmImage(index) on a pending index takes it out of pending, puts
\* it once in confirmed, and leaves regenerating, the other indexes, status,
\* progress, error and the rest of data alone; on an index that is confirmed
\* and not pending it leaves data as it is.
ConfirmImageMovesPending ==
    [][\A index \in Indexes :
          confirmImage(index)
          => LET c == data.imageConfirmation
             IN  /\ Includes(c.pending, index)
                    => /\ data'.imageConfirmation.pending =
                              SelectSeq(c.pending, LAMBDA i : i # index)
                       /\ Range(data'.imageConfirmation.confirmed) =
                              Range(c.confirmed) \cup {index}
                       /\ Len(data'.imageConfirmation.confirmed) =
                              Len(c.confirmed) + (IF Includes(c.confirmed, index) THEN 0 ELSE 1)
                       /\ data'.imageConfirmation.regenerating = c.regenerating
                       /\ data' = [data EXCEPT !.imageConfirmation = data'.imageConfirmation]
                       /\ reply'.result = Served
                       /\ UNCHANGED <<status, progress, error, runs, regens, videoJobs>>
                 /\ (Includes(c.confirmed, index) /\ ~Includes(c.pending, index))
                    => /\ data' = data
                       /\ UNCHANGED <<status, progress, error, runs, regens, videoJobs>>]_vars

\* C9 happens: a pending image was confirmed while another one stays pending
ConfirmedOneOfTwo ==
    /\ reply = Reply("confirmImage", Served)
    /\ data.imageConfirmation.confirmed = <<1>>
    /\ data.imageConfirmation.pending = <<2>>

\* C10: confirmImage or regenerateImage with an index that is not the index
\* of an image generated with success is refused at once and changes nothing
\* of the project.
UngeneratedIndexRejected ==
    [][\A index \in Indexes :
          (/\ ~IsGenerated(index)
           /\ \/ confirmImage(index)
              \/ \E newPrompt \in NewPrompts : regenerateImage(index, newPrompt))
          => /\ reply'.result \in {NotFound, BadRequest}
             /\ ProjectUnchanged]_vars

\* C11: when the composer returns, composeMV leaves outputPath recorded,
\* status COMPLETED and progress 100; when the composer fails, before or
\* after its first suspension, the end of composeMV leaves the error recorded
\* and status FAILED.
ComposeOutcomeRecorded ==
    [][/\ \A j \in BagToSet(videoJobs) :
             /\ composeMVDone(j)
                => /\ status' = COMPLETED
                   /\ progress' = Pts(100)
                   /\ IsDefined(data'.outputPath)
             /\ composeMVFailed(j)
                => /\ status' = FAILED
                   /\ IsDefined(error')
       /\ (composeMV /\ reply'.result = Failed)
          => /\ status' = FAILED
             /\ IsDefined(error')]_vars

\* C12: once the status is COMPLETED or FAILED no step changes it.
TerminalStatusStays ==
    [][(status = COMPLETED \/ status = FAILED) => status' = status]_vars

\* the place of a status in the order of normal progress, FAILED last
StatusRank(s) ==
    CASE s = CREATED -> 0
      [] s = RECOGNIZING_LYRICS -> 1
      [] s = LYRICS_READY -> 2
      [] s = GENERATING_STORYBOARD -> 3
      [] s = GENERATING_IMAGES -> 4
      [] s = AWAITING_IMAGE_CONFIRM -> 5
      [] s = GENERATING_VIDEOS -> 6
      [] s = ANIMATING_IMAGES -> 7
      [] s = COMPOSING_MV -> 8
      [] s = COMPLETED -> 9
      [] s = FAILED -> 10

\* C13: every step leaves the status where it is, moves it to a later status
\* of the order CREATED .. COMPLETED, or moves it to FAILED.
StatusNeverMovesBack ==
    [][(status' = FAILED) \/ (StatusRank(status') >= StatusRank(status))]_vars

\* C14: at most one stage operation (runUntilImageConfirmation,
\* continueAfterImageConfirmation, generateVideos, composeMV) of the project
\* is suspended at any time.
OneStageInFlight ==
    BagCardinality(runs) + BagCardinality(videoJobs) <= 1

\* C15: in every state reached after a first save, project.json holds the
\* status, progress, data and error the pipeline has in memory.
SnapshotIsCurrent ==
    IsDefined(saved) => saved = Snapshot(status, progress, data, error)

\* C16: loadProjectData after a save that wrote the status, progress and
\* data of the pipeline leaves status, progress, data and error as they were
\* in memory; a FAILED project keeps its error message.
ReloadRestoresProject ==
    [][(/\ loadProjectData
        /\ reply'.result = Served
        /\ Get(saved).status = status
        /\ Get(saved).progress = progress
        /\ Get(saved).data = data)
       => /\ status' = status
          /\ progress' = progress
          /\ data' = data
          /\ error' = error]_vars

\* C17: no step lowers the progress of the project.
ProgressNeverDecreases ==
    [][progress' >= progress]_vars

\* C18: in every state the progress is a whole number from 0 to 100
\* (progress is kept in hundredths: a whole number is a multiple of 100).
ProgressIsWholePercent ==
    /\ progress % 100 = 0
    /\ progress >= 0
    /\ progress <= Pts(100)

\* the call of optimizeForBudget has returned
BudgetReturned == call.fn = "optimizeForBudget" /\ IsDefined(call.result)

\* C19: the list optimizeForBudget returns holds at most maxVideos segments
\* whose renderType is VIDEO.
BudgetBoundsVideos ==
    BudgetReturned => VideoCount(Get(call.result)) <= call.maxVideos

\* C19 happens: a list with more VIDEO segments than the budget allows came
\* back with exactly the budget
BudgetCutVideos ==
    /\ BudgetReturned
    /\ call.maxVideos > 0
    /\ VideoCount(call.classified) > call.maxVideos
    /\ VideoCount(Get(call.result)) = call.maxVideos

\* segment j of the list comes before segment i in the order priority HIGH,
\* MEDIUM, LOW, then longer duration first, then list order
ComesBefore(list, j, i) ==
    LET pj == priorityOrder(list[j].priority)
        pi == priorityOrder(list[i].priority)
    IN  \/ pj < pi
        \/ pj = pi /\ list[j].duration > list[i].duration
        \/ pj = pi /\ list[j].duration = list[i].duration /\ j < i

\* C20: when the list holds more VIDEO segments than maxVideos, the result
\* has the same length and order; a VIDEO segment stays as it is when fewer
\* than maxVideos VIDEO segments come before it in the order (priority, then
\* longer duration), and otherwise becomes ANIMATION with videoDuration
\* cleared; the other segments are unchanged.  Durations [3,7,5] with
\* priorities [MEDIUM,HIGH,MEDIUM] and maxVideos = 1 keep only the second.
BudgetKeepsBestVideos ==
    (BudgetReturned /\ VideoCount(call.classified) > call.maxVideos)
    => LET in == call.classified
           out == Get(call.result)
           ahead(i) == Cardinality({j \in DOMAIN in :
                           in[j].renderType = VIDEO /\ ComesBefore(in, j, i)})
       IN  /\ DOMAIN out = DOMAIN in
           /\ \A i \in DOMAIN in :
                  IF in[i].renderType = VIDEO /\ ahead(i) >= call.maxVideos
                  THEN out[i] = [in[i] EXCEPT !.renderType = ANIMATION,
                                              !.videoDuration = Undefined]
                  ELSE out[i] = in[i]
           /\ (/\ call.maxVideos = 1
               /\ in = <<ClassifiedSegment(VIDEO, MEDIUM, 3),
                         ClassifiedSegment(VIDEO, HIGH, 7),
                         ClassifiedSegment(VIDEO, MEDIUM, 5)>>)
              => [i \in DOMAIN out |-> out[i].renderType] = <<ANIMATION, VIDEO, ANIMATION>>

\* C20 happens: the call with durations [3,7,5], priorities
\* [MEDIUM,HIGH,MEDIUM] and maxVideos = 1 has returned
BudgetScenarioReturned ==
    /\ BudgetReturned
    /\ call.maxVideos = 1
    /\ call.classified = <<ClassifiedSegment(VIDEO, MEDIUM, 3),
                           ClassifiedSegment(VIDEO, HIGH, 7),
                           ClassifiedSegment(VIDEO, MEDIUM, 5)>>
    /\ Get(call.result)[2].renderType = VIDEO
    /\ Get(call.result)[1].videoDuration = Undefined

\* the call of mergeAdjacentSegments has returned
MergeReturned == call.fn = "mergeAdjacentSegments" /\ IsDefined(call.result)

\* the segments of the list that lie within the time span of segment o
Members(list, o) ==
    {i \in DOMAIN list : o.startTime <= list[i].startTime /\ list[i].endTime <= o.endTime}

\* C21: every segment mergeAdjacentSegments returns spans a run of adjacent
\* input segments, from the startTime of the first to the endTime of the
\* last, and keeps the renderType and special mark of the first; the runs
\* follow one another and cover the input; a run of two or more holds only
\* non-special segments of one renderType that is not VIDEO, each shorter
\* than the threshold; the numbers of VIDEO and of special segments are those
\* of the input; the output is numbered 1..N in order.
MergeOnlyShortAlikeSegments ==
    MergeReturned
    => LET in == call.classified
           out == Get(call.result)
           first(k) == CHOOSE i \in Members(in, out[k]) : \A j \in Members(in, out[k]) : i <= j
           last(k) == CHOOSE i \in Members(in, out[k]) : \A j \in Members(in, out[k]) : i >= j
       IN  /\ (Len(in) = 0) = (Len(out) = 0)
           /\ \A k \in DOMAIN out :
                  /\ out[k].index = k
                  /\ Members(in, out[k]) # {}
                  /\ Members(in, out[k]) = first(k)..last(k)
                  /\ first(k) = IF k = 1 THEN 1 ELSE last(k - 1) + 1
                  /\ k = Len(out) => last(k) = Len(in)
                  /\ out[k].startTime = in[first(k)].startTime
                  /\ out[k].endTime = in[last(k)].endTime
                  /\ out[k].renderType = in[first(k)].renderType
                  /\ out[k].specialType = in[first(k)].specialType
                  /\ first(k) # last(k)
                     => \A i \in first(k)..last(k) :
                            /\ ~in[i].specialType
                            /\ in[i].renderType = in[first(k)].renderType
                            /\ in[i].renderType # VIDEO
                            /\ in[i].duration < call.mergeThreshold
           /\ VideoCount(out) = VideoCount(in)
           /\ Cardinality({k \in DOMAIN out : out[k].specialType})
                  = Cardinality({i \in DOMAIN in : in[i].specialType})

\* C21 happens: three short segments were merged into one while the VIDEO
\* segment before them stayed
MergedThreeShortSegments ==
    /\ MergeReturned
    /\ Len(call.classified) = MaxClassified
    /\ call.classified[1].renderType = VIDEO
    /\ call.classified[1].duration = 1
    /\ Len(Get(call.result)) = 2
    /\ Get(call.result)[2].endTime - Get(call.result)[2].startTime = MaxClassified - 1

\* the call of analyzePriority has returned
PriorityReturned == call.fn = "analyzePriority" /\ IsDefined(call.result)

\* C22: analyzePriority returns LOW for a special lyric; otherwise HIGH when
\* 0.5 <= index/total <= 0.8; otherwise MEDIUM for a lyric that is one of the
\* first two or one of the last two of the list; otherwise HIGH when its
\* duration is at least 6 seconds; otherwise MEDIUM.  Of 10 lyrics, the 6th,
\* 7th and 8th are HIGH.
PriorityFollowsPosition ==
    PriorityReturned
    => LET lyric == call.lyric
           index == call.index
           total == call.total
       IN  /\ Get(call.result) =
                  IF lyric.specialType THEN LOW
                  ELSE IF 10 * index >= 5 * total /\ 10 * index <= 8 * total THEN HIGH
                  ELSE IF index + 1 <= 2 \/ index + 1 > total - 2 THEN MEDIUM
                  ELSE IF lyric.duration >= 6 THEN HIGH
                  ELSE MEDIUM
           /\ (total = 10 /\ index + 1 \in 6..8 /\ ~lyric.specialType)
              => Get(call.result) = HIGH

\* the call of determineRenderType has returned
RenderReturned == call.fn = "determineRenderType" /\ IsDefined(call.result)

\* C23: determineRenderType gives VIDEO under the all-video override;
\* failing that, the forced type; failing both, a special lyric is ANIMATION
\* from minAnimationThreshold seconds on and STATIC below, never VIDEO; any
\* other lyric is VIDEO when its priority is HIGH and it lasts at least
\* minVideoThreshold, or its priority is MEDIUM and it lasts at least one and
\* a half times minVideoThreshold, and otherwise ANIMATION from
\* minAnimationThreshold seconds on and STATIC below.
RenderTypeFollowsPrecedence ==
    RenderReturned
    => LET lyric == call.lyric
           result == Get(call.result)
           override == call.options.allVideo \/ IsDefined(call.options.forceType)
           long == \/ call.priority = HIGH /\ lyric.duration >= minVideoThreshold
                   \/ call.priority = MEDIUM /\ 2 * lyric.duration >= 3 * minVideoThreshold
           plain == IF lyric.duration >= minAnimationThreshold THEN ANIMATION ELSE STATIC
       IN  /\ call.options.allVideo => result = VIDEO
           /\ (~call.options.allVideo /\ IsDefined(call.options.forceType))
              => result = Get(call.options.forceType)
           /\ (~override /\ lyric.specialType) => (result = plain /\ result # VIDEO)
           /\ (~override /\ ~lyric.specialType /\ long) => result = VIDEO
           /\ (~override /\ ~lyric.specialType /\ ~long) => result = plain

\* C23 happens: with both overrides set the all-video override won over a
\* forced STATIC, and that for a special lyric
AllVideoWonOverForcedType ==
    /\ RenderReturned
    /\ call.options.allVideo
    /\ call.options.forceType = Some(STATIC)
    /\ call.lyric.specialType
    /\ Get(call.result) = VIDEO

\* composeMV has returned the composed MV
ComposeDone == call.fn = "composeMV" /\ call.pc = "done"

\* C24: after composition, the clip used for every segment placed on the
\* timeline lasts the segment's duration to within 0.1 second.
ClipsMatchTargets ==
    ComposeDone
    => \A i \in DOMAIN call.clips :
           Abs(call.clips[i].clip - call.clips[i].target) <= 10

\* the call of adjustVideoDuration has settled
AdjustSettled == call.fn = "adjustVideoDuration" /\ IsDefined(call.result)

\* C26: adjustVideoDuration copies a clip that is less than 0.1 second from
\* the target (adjusted = false); otherwise it trims a clip longer than the
\* target; otherwise it first slows the clip down when target/actual <= 1.5
\* and goes straight to the freeze frame, with a still of target - actual,
\* when the ratio is larger.  An 8 second clip for 10 seconds is slowed down;
\* a 4 second clip for 10 seconds gets a 6 second still.
AdjustMethodFollowsDurations ==
    AdjustSettled
    => LET actual == call.actualDuration
           target == call.targetDuration
           result == Get(call.result)
       IN  /\ (Abs(actual - target) < 10)
              => /\ result.settled = "resolved"
                 /\ result.adjusted = FALSE
                 /\ result.attempts = <<>>
                 /\ result.clip = Some(actual)
           /\ (Abs(actual - target) >= 10 /\ actual > target)
              => result.attempts = <<"trim">>
           /\ (Abs(actual - target) >= 10 /\ actual < target /\ 2 * target <= 3 * actual)
              => /\ result.attempts[1] = "slowdown"
                 /\ result.method = Some("slowdown") => result.attempts = <<"slowdown">>
           /\ (Abs(actual - target) >= 10 /\ actual < target /\ 2 * target > 3 * actual)
              => /\ result.attempts = <<"freeze">>
                 /\ result.settled = "resolved"
                    => /\ result.method = Some("freeze")
                       /\ result.freezeDuration = Some(target - actual)
           /\ (actual = 800 /\ target = 1000) => result.attempts[1] = "slowdown"
           /\ (actual = 400 /\ target = 1000 /\ result.settled = "resolved")
              => result.freezeDuration = Some(600)

\* C26 happens: a 4 second clip for a 6 second target, ratio exactly 1.5,
\* was slowed down
SlowedDownAtRatioLimit ==
    /\ AdjustSettled
    /\ call.actualDuration = 400
    /\ call.targetDuration = 600
    /\ Get(call.result).method = Some("slowdown")

\* C27: in composeMV a slowdown that failed was followed by one freeze-frame
\* run and nothing else; a segment whose adjustment was rejected is on the
\* timeline with its original file, the measured duration and adjusted =
\* false; and the loop went on: every segment seen so far that has a file has
\* its clip, so composeMV never stops for a failed adjustment.
FailedAdjustKeepsOriginal ==
    call.fn = "composeMV"
    => /\ \A i \in DOMAIN call.clips :
              LET c == call.clips[i]
                  pushed == call.videoSegments[i]
              IN  /\ (c.attempts # <<>> /\ c.attempts[1] = "slowdown"
                         /\ (Len(c.attempts) > 1 \/ c.settled = Some("rejected")))
                     => c.attempts = <<"slowdown", "freeze">>
                  /\ c.settled = Some("rejected")
                     => /\ c.attempts[Len(c.attempts)] \in {"trim", "freeze"}
                        /\ pushed.index = c.index
                        /\ pushed.path = c.file
                        /\ pushed.duration = call.files[c.index].measured
                        /\ pushed.adjusted = Some(FALSE)
                        /\ c.clip = call.files[c.index].measured
       /\ Len(call.clips) = Len(call.videoSegments)
       /\ {call.clips[i].index : i \in DOMAIN call.clips}
              = {j \in 1..(call.k - 1) : call.files[j].video \/ call.files[j].animated}

\* C27 happens: the first of two clips could be neither slowed down nor
\* extended, and the MV was composed with both
ComposedAfterFailedAdjust ==
    /\ ComposeDone
    /\ Len(call.clips) = 2
    /\ call.clips[1].attempts = <<"slowdown", "freeze">>
    /\ call.clips[1].settled = Some("rejected")

\* C29: composeMV takes the segments in order; for a VIDEO segment it uses
\* video_NNN when it exists and else animated_NNN, for any other segment
\* animated_NNN when it exists and else video_NNN; a segment with neither is
\* left out and the others keep their order; composeMV throws for missing
\* clips only when no segment has a file.
ClipsResolvedByTier ==
    call.fn = "composeMV"
    => LET present == {j \in 1..(call.k - 1) : call.files[j].video \/ call.files[j].animated}
       IN  /\ {call.videoSegments[i].index : i \in DOMAIN call.videoSegments} = present
           /\ \A i, j \in DOMAIN call.videoSegments :
                  i < j => call.videoSegments[i].index < call.videoSegments[j].index
           /\ \A i \in DOMAIN call.clips :
                  LET files == call.files[call.clips[i].index]
                      segment == call.segments[call.clips[i].index]
                  IN  /\ call.clips[i].file.index = segment.index
                      /\ call.clips[i].file.kind =
                             IF segment.renderType = VIDEO
                             THEN (IF files.video THEN "video" ELSE "animated")
                             ELSE (IF files.animated THEN "animated" ELSE "video")
           /\ (call.result = Some(Thrown("No video segments found")))
                  = (call.k > Len(call.segments) /\ present = {})

\* C29 happens: the first segment had no clip and the second, an animation,
\* was composed from its AI video
ComposedWithoutMissingSegment ==
    /\ ComposeDone
    /\ Len(call.segments) = 2
    /\ ~call.files[1].video /\ ~call.files[1].animated
    /\ call.segments[2].renderType = ANIMATION
    /\ Len(call.videoSegments) = 1
    /\ call.clips[1].file = Path("video", 2)

\* C30: with transitions, a failed xfade render is followed by exactly one
\* plain concat of the same clips in the same order, and the concat step
\* fails only when that concat fails; without transitions only the plain
\* concat runs.
ConcatFallsBackOnce ==
    call.fn = "composeMV"
    => LET log == call.concats
       IN  /\ ~call.useTransition
              => (Len(log) <= 1 /\ \A i \in DOMAIN log : log[i].method = "concat")
           /\ call.useTransition
              => /\ Len(log) <= 2
                 /\ Len(log) >= 1 => log[1].method = "xfade"
                 /\ (Len(log) >= 1 /\ ~log[1].ok /\ call.pc # "fallback")
                    => /\ Len(log) = 2
                       /\ log[2].method = "concat"
                       /\ log[2].paths = log[1].paths
                 /\ Len(log) = 2 => ~log[1].ok
           /\ (call.pc = "failed" /\ log # <<>> /\ call.result # Some(Thrown("ffmpeg failed")))
              => (log[Len(log)].method = "concat" /\ ~log[Len(log)].ok)
           /\ (log # <<>> /\ log[Len(log)].ok) => call.pc \in {"finish", "done", "failed"}
           /\ (log # <<>> /\ log[Len(log)].ok /\ call.pc = "failed")
              => call.result = Some(Thrown("ffmpeg failed"))

\* C30 happens: the xfade render failed, the plain concat succeeded and the
\* MV was composed
ComposedAfterFailedTransition ==
    /\ ComposeDone
    /\ call.useTransition
    /\ Len(call.concats) = 2
    /\ ~call.concats[1].ok
    /\ call.concats[2].ok

\* generateVideo is in the chain of a long segment, or has left it
InChain ==
    /\ call.fn = "generateVideo"
    /\ call.imageExists
    /\ call.duration > 10 * LONG_SEGMENT_THRESHOLD

\* the least number of 10 second clips that cover a duration
ClipsToCover(segmentDuration) ==
    CHOOSE n \in 1..segmentDuration : n * 100 >= segmentDuration /\ (n - 1) * 100 < segmentDuration

\* C25: in the chain of a long segment the generation calls follow one
\* another: a call is issued only when every earlier one has succeeded; the
\* first call starts from the segment's image and every later one from the
\* last frame extracted from the clip of the call before it; a successful
\* chain has issued exactly ceil(duration / 10) calls and concatenated their
\* clips in the order of the calls.  A 22 second segment takes 3 calls.
ChainCallsFollowOneAnother ==
    InChain
    => /\ Len(call.calls) <= ClipsToCover(call.duration)
       /\ \A n \in DOMAIN call.calls :
              /\ n < Len(call.calls) => call.calls[n].state = "ok"
              /\ call.calls[n].frame =
                     IF n = 1 THEN FirstFrameImage
                     ELSE LastFrameOf(Get(call.calls[n - 1].output))
              /\ n > 1 => \E f \in DOMAIN call.frames :
                              /\ call.frames[f].from = Get(call.calls[n - 1].output)
                              /\ call.frames[f].state = "ok"
       /\ (IsDefined(call.result) /\ Get(call.result).success)
          => /\ Len(call.calls) = ClipsToCover(call.duration)
             /\ Get(call.result).clipCount = ClipsToCover(call.duration)
             /\ Len(call.concats) = 1
             /\ call.concats[1].paths = [n \in DOMAIN call.calls |-> Get(call.calls[n].output)]
             /\ call.duration = 220 => Len(call.calls) = 3

\* C25 happens: a 20.1 second segment was generated with three calls
ChainOfThreeGenerated ==
    /\ InChain
    /\ call.duration = 201
    /\ IsDefined(call.result)
    /\ Get(call.result).success
    /\ Len(call.calls) = 3

\* a generation call of the chain or an extraction of a last frame has failed
ChainBroken ==
    \/ \E n \in DOMAIN call.calls : call.calls[n].state = "failed"
    \/ \E f \in DOMAIN call.frames : call.frames[f].state = "failed"

\* C28: when a generation call of the chain, or the extraction of a last
\* frame, has failed, no call was issued after it, none of the temporary
\* clips and frames is left on disk, nothing was concatenated or written to
\* the output path, and generateVideo has returned success = false.
BrokenChainLeavesNothing ==
    (InChain /\ ChainBroken)
    => /\ \A n \in DOMAIN call.calls : call.calls[n].state # "running"
       /\ \A n \in DOMAIN call.calls : call.calls[n].state = "failed" => n = Len(call.calls)
       /\ \A f \in DOMAIN call.frames :
              call.frames[f].state = "failed"
              => (f = Len(call.frames) /\ Len(call.calls) = f)
       /\ call.files = {}
       /\ call.concats = <<>>
       /\ ~call.output
       /\ call.pc = "done"
       /\ call.result = Some(NotGenerated)

\* C28 happens: the second call of a chain failed with a partial download
\* after the first clip and its last frame had been written
ChainBrokenAtSecondClip ==
    /\ InChain
    /\ Len(call.calls) = 2
    /\ call.calls[2].state = "failed"
    /\ call.tempFiles = <<ClipPath(0), FramePath(0), ClipPath(1)>>

\* addAudioTrack has written the MV
AudioAdded ==
    /\ call.fn = "addAudioTrack"
    /\ IsDefined(call.result)
    /\ Get(call.result).settled = "resolved"

\* C31: when addAudioTrack has muxed the audio, the video was extended by a
\* frozen last frame of audioDuration - videoDuration exactly when it was
\* more than 0.5 second shorter than the audio; otherwise it was not
\* extended; in both cases the output is limited to, and lasts, the audio's
\* duration.
AudioSetsTheDuration ==
    AudioAdded
    => LET result == Get(call.result)
           short == call.audioDuration - call.videoDuration > 50
       IN  /\ short => result.stop_duration = Some(call.audioDuration - call.videoDuration)
           /\ ~short => result.stop_duration = Undefined
           /\ result.t = Some(call.audioDuration)
           /\ result.duration = Some(call.audioDuration)

\* C31 happens: a video exactly 0.5 second shorter than the audio was muxed
\* without extension
MuxedHalfSecondShort ==
    /\ AudioAdded
    /\ call.audioDuration - call.videoDuration = 50
    /\ Get(call.result).stop_duration = Undefined

\* generateVideos has returned
VideosReturned == call.fn = "generateVideos" /\ call.pc = "done"

\* C32: when generateVideos returns, it returns one result per segment, in
\* the order of the segments; a segment whose generation failed has
\* success = false there, and animateImage has been called for it, and has
\* ended, with the segment's image, animated_<index> and the segment's
\* duration; segments that did not fail are not animated.
FailedVideosAreAnimated ==
    VideosReturned
    => /\ call.result = Some(call.results)
       /\ Len(call.results) = Len(call.segments)
       /\ \A p \in DOMAIN call.results :
              /\ call.results[p].index = call.segments[p].index
              /\ ~call.results[p].success
                 => \E f \in DOMAIN call.fallbacks :
                        /\ call.fallbacks[f].index = call.segments[p].index
                        /\ call.fallbacks[f].image = MediaPath("image", call.segments[p].index)
                        /\ call.fallbacks[f].output = MediaPath("animated", call.segments[p].index)
                        /\ call.fallbacks[f].duration = call.segments[p].duration
                        /\ call.fallbacks[f].state # "running"
              /\ call.results[p].success
                 => \A f \in DOMAIN call.fallbacks :
                        call.fallbacks[f].index # call.segments[p].index

\* C32 happens: two of three videos failed, one of the two animations failed
\* as well, and generateVideos returned its three results
ReturnedWithTwoFallbacks ==
    /\ VideosReturned
    /\ Len(call.results) = 3
    /\ Len(call.fallbacks) = 2
    /\ call.fallbacks[2].state = "failed"
    /\ call.results[1].success

\* the call of classifySegments of the pipeline has returned
ClassifyReturned == call.fn = "classifySegments" /\ IsDefined(call.result)

\* C33: after classifySegments, and after optimizeForBudget and
\* mergeAdjacentSegments when they follow, a segment has a videoDuration
\* exactly when its renderType is VIDEO, and a videoDuration lies between 3
\* and 10 seconds.
VideoDurationIffVideo ==
    ClassifyReturned
    => \A n \in DOMAIN Get(call.result) :
           \A i \in DOMAIN Get(call.result)[n] :
               LET segment == Get(call.result)[n][i]
               IN  /\ IsDefined(segment.videoDuration) = (segment.renderType = VIDEO)
                   /\ IsDefined(segment.videoDuration)
                      => (3 <= Get(segment.videoDuration) /\ Get(segment.videoDuration) <= 10)

\* C33 happens: of two VIDEO segments the budget kept the 12 second one, with
\* a videoDuration of 10, and downgraded the other, and the list was then
\* merged
ClassifiedCutAndMerged ==
    /\ ClassifyReturned
    /\ Len(Get(call.result)) = 3
    /\ VideoCount(Get(call.result)[1]) = 2
    /\ \E i \in DOMAIN Get(call.result)[3] :
           /\ Get(call.result)[3][i].duration = 12
           /\ Get(call.result)[3][i].videoDuration = Some(10)
    /\ \E i \in DOMAIN Get(call.result)[2] :
           /\ Get(call.result)[1][i].renderType = VIDEO
           /\ Get(call.result)[2][i].renderType = ANIMATION

\* the call of parseLRC has returned
ParseReturned == call.fn = "parseLRC" /\ IsDefined(call.result)

\* C34: every lyric parseLRC returns has duration = endTime - startTime and
\* a duration of at least 0; the lyrics are numbered 1..N and their
\* startTimes never decrease.
LyricsHaveDurations ==
    ParseReturned
    => LET lyrics == Get(call.result)
       IN  \A i \in DOMAIN lyrics :
               /\ lyrics[i].duration = lyrics[i].endTime - lyrics[i].startTime
               /\ lyrics[i].duration >= 0
               /\ lyrics[i].index = i
               /\ i < Len(lyrics) => lyrics[i].startTime <= lyrics[i + 1].startTime

\* C35: whenever no regenerateImage call is in flight, the regenerating list
\* is empty.
NoRegenerationLeftBehind ==
    regens = EmptyBag => data.imageConfirmation.regenerating = <<>>

\* C36: the status becomes GENERATING_VIDEOS only in a step taken from
\* AWAITING_IMAGE_CONFIRM; while the confirmation lists are still in their
\* initial empty state and no image has been generated, no step enters
\* GENERATING_VIDEOS.
GeneratingVideosFollowsConfirmation ==
    [][(status' = GENERATING_VIDEOS /\ status # GENERATING_VIDEOS)
       => /\ status = AWAITING_IMAGE_CONFIRM
          /\ ~(/\ data.imageConfirmation = EmptyConfirmation
               /\ ~IsDefined(data.imageResults))]_vars

\* a runUntilImageConfirmation ends in this step
RunEnds(r) == runs' = Take(runs, r)

\* a continueAfterImageConfirmation that awaited a collaborator ends in this
\* step
ContinuationEnds(j) == j.andCompose /\ videoJobs' = Take(videoJobs, j)

\* a continueAfterImageConfirmation passes the gate and ends before it awaits
\* a collaborator
ContinuationEndsAtOnce ==
    /\ isAllImagesConfirmed
    /\ videoJobs' = videoJobs
    /\ \E conc \in Concurrencies : continueAfterImageConfirmation(conc) \/ ContinueMV(conc)

\* a continueAfterImageConfirmation is past the gate and has not ended
Continuing == \E j \in BagToSet(videoJobs) : j.andCompose

RequestsWithinRetries ==
    (call.fn \in RetryFunctions /\ call.started)
    => /\ call.issued <= call.retries + 1
       /\ call.pending = EmptyBag => IsDefined(call.result)

\* the seconds asked of the video collaborator by these generation calls
RECURSIVE SecondsAsked(_)
SecondsAsked(calls) ==
    IF calls = <<>> THEN 0 ELSE Head(calls).duration + SecondsAsked(Tail(calls))

\* generateVideo has returned a video
VideoGenerated ==
    /\ call.fn = "generateVideo"
    /\ IsDefined(call.result)
    /\ Get(call.result).success

\* C39: when generateVideo has returned a video, the length L asked of the
\* video collaborator (6 or 10 seconds, or 10 seconds per clip of a chain)
\* and the segment's duration d satisfy L >= d or d / L <= 1.5, and
\* adjustVideoDuration of a clip of length L to d copies, trims or slows
\* down: it never starts with the freeze frame, and does not use it when its
\* ffmpeg runs succeed.
NominalLengthNeedsNoFreeze ==
    VideoGenerated
    => LET L == 100 * SecondsAsked(call.calls)
           d == 10 * call.duration
       IN  /\ L >= d \/ 2 * d <= 3 * L
           /\ \A ok \in ExecOutcomes :
                  LET adjusted == adjustVideoDuration(L, d, ok)
                  IN  /\ adjusted.attempts # <<>> => adjusted.attempts[1] # "freeze"
                      /\ (ok.trim /\ ok.slowdown) => adjusted.method # Some("freeze")

\* C39 happens: a 15 second segment was generated with one call of 10
\* seconds, which adjustVideoDuration slows down by the ratio 1.5
GeneratedAtSlowdownLimit ==
    /\ VideoGenerated
    /\ call.duration = 150
    /\ SecondsAsked(call.calls) = 10
    /\ \A ok \in ExecOutcomes :
           ok.slowdown => adjustVideoDuration(1000, 1500, ok).method = Some("slowdown")

====
